---- MODULE Spec2Model ----
(***************************************************************************)
(* Model of the dev-time pipeline of packages/kit/src/vite:                *)
(*   - utils.js: the import-boundary checker over the build-time (rollup)  *)
(*     graph and over the live (vite) graph;                               *)
(*   - dev/index.js: the manifest node loader and the request dispatcher.  *)
(***************************************************************************)
EXTENDS Integers, Sequences, FiniteSets, TLC

\* ---------------------------------------------------------------- bounds
NumNodes == 3
MaxEdges == 3
NumRequests == 2
MaxRebuilds == 1

Nodes == 1..NumNodes
\* id 0 names a module the graph has no info for (node_getter returns null)
Targets == 0..NumNodes

VARIABLES
    mode,                   \* "build": rollup graph, "dev": vite graph
    importedIds,            \* [Nodes -> SUBSET Targets], static import edges
    dynamicallyImportedIds, \* [Nodes -> SUBSET Targets], dynamic import edges
    ext,                    \* [Nodes -> file extension of the module]
    illegal_imports,        \* set of normalized names
    call,                   \* the latest top-level check on this graph and its outcome
    prev,                   \* the check before the latest one, when it had the same arguments
    manifest,               \* dev(): the manifest object `manifest` refers to
    objects,                \* the manifest objects allocated so far, by reference
    env,                    \* what the env-private / env-public modules hold
    dotenv,                 \* the entries loadEnv(mode, cwd, '') returns
    publicPrefix,           \* svelte_config.kit.env.publicPrefix
    case_insensitive,       \* whether the file system folds case in lookups
    user_hooks,             \* the exports of the hooks file, or NoHooksFile
    req,                    \* the requests the dev server handles
    watched,                \* the latest event vite.watcher has emitted, and how many it has
    ssrTransformResult,     \* the nodes whose ssrTransformResult is set
    deps,                   \* inline_styles: the set find_deps fills, in insertion order
    branches,               \* find_deps: the branches started and where each stands
    styles,                 \* inline_styles: the loop over deps and its result
    heap,                   \* deep_merge: the objects and arrays that exist, by reference
    merged,                 \* deep_merge: the inputs and the object returned
    traversal               \* a check in progress: the recursion stack and the seen set

graph_vars == <<mode, importedIds, dynamicallyImportedIds, ext, illegal_imports>>
check_vars == <<call, prev>>
dev_vars == <<manifest, objects, env, dotenv, publicPrefix, case_insensitive, user_hooks, req,
             watched>>
deps_vars == <<ssrTransformResult, deps, branches, styles>>
merge_vars == <<heap, merged>>
traversal_vars == <<traversal>>

\* ------------------------------------------------------- ids and names
\* A module id as the graph reports it: on some modules the path separators
\* are backslashes. A name is a normalized id.
Sep(n) == IF n % 2 = 1 THEN "\\" ELSE "/"
ModuleId(n) == [path |-> n, sep |-> Sep(n), ext |-> IF n \in Nodes THEN ext[n] ELSE ".js"]
NoId == [path |-> -1, sep |-> "/", ext |-> ""]

\* faulty variant: ids are compared as the graph reports them
normalizePath_raw(id) == id
\* vite's normalizePath: backslashes become slashes
normalizePath(id) == [id EXCEPT !.sep = "/"]

\* ext[n] holds what follows the stem in the file name of module n; a file
\* name may have no dot or more than one
DotSegments(e) ==
    CASE e = "" -> <<>>
      [] e = ".svelte.md" -> <<".svelte", ".md">>
      [] e = ".d.css" -> <<".d", ".css">>
      [] OTHER -> <<e>>
\* path.extname: from the last dot of the name to its end, "" without a dot
extname(name) ==
    LET segments == DotSegments(name.ext)
    IN IF segments = <<>> THEN "" ELSE segments[Len(segments)]

\* the canonical name of module n, as the forbidden set holds it
NameOf(n) == [path |-> n, sep |-> "/", ext |-> ext[n]]
Names == {NameOf(n) : n \in Nodes}

\* null, and the absent chain
Null == <<>>

\* ascending list of a set of integers (iteration order of the import lists)
RECURSIVE SetToSeq(_)
SetToSeq(S) ==
    IF S = {} THEN <<>>
    ELSE LET m == CHOOSE x \in S : \A y \in S : x <= y
         IN <<m>> \o SetToSeq(S \ {m})

Last(s) == s[Len(s)]

\* rollup's ModuleInfo of node n
ModuleInfo(n) ==
    [id |-> ModuleId(n),
     importedIds |-> [i \in 1..Cardinality(importedIds[n]) |->
                        ModuleId(SetToSeq(importedIds[n])[i])],
     dynamicallyImportedIds |-> [i \in 1..Cardinality(dynamicallyImportedIds[n]) |->
                        ModuleId(SetToSeq(dynamicallyImportedIds[n])[i])]]

\* the null ModuleInfo / ModuleNode
NoModule == [id |-> NoId, importedIds |-> <<>>, dynamicallyImportedIds |-> <<>>]

\* this.getModuleInfo: null for an id the graph does not know
node_getter(id) ==
    IF id.path \in Nodes /\ id = ModuleId(id.path) THEN ModuleInfo(id.path) ELSE NoModule

\* vite's ModuleNode of node n: importedModules holds static and dynamic
\* imports alike
ImportedModules(n) == (importedIds[n] \cup dynamicallyImportedIds[n]) \cap Nodes

\* --------------------------------------------- find_illegal_rollup_imports
Found(r) == r.chain # Null

\* { name, dynamic }
\* faulty variant: the edge kind is dropped
ImportNode_untagged(name, dynamic) == [name |-> name, dynamic |-> FALSE]
ImportNode(name, dynamic) == [name |-> name, dynamic |-> dynamic]

Tagged(ids, dynamic) == [i \in 1..Len(ids) |-> [id |-> ids[i], dynamic |-> dynamic]]

\* The order in which find_illegal_rollup_imports visits the imports of a
\* node: the loop over importedIds, then the loop over dynamicallyImportedIds.
\* faulty variant: dynamic imports are searched first
rollup_imports_dynamic_first(node) ==
    Tagged(node.dynamicallyImportedIds, TRUE) \o Tagged(node.importedIds, FALSE)
\* faulty variant: dynamic imports are not searched
rollup_imports_static_only(node) == Tagged(node.importedIds, FALSE)
rollup_imports(node) ==
    Tagged(node.importedIds, FALSE) \o Tagged(node.dynamicallyImportedIds, TRUE)

RECURSIVE find_illegal_rollup_imports(_, _, _, _)
RECURSIVE rollup_each(_, _, _)

\* The recursive search; the result carries the chain and the seen set as
\* the call leaves it (seen is mutated in place in the source).
find_illegal_rollup_imports(node, dynamic, illegal, seen) ==
    LET name == normalizePath(node.id) IN
    IF name \in seen THEN [chain |-> Null, seen |-> seen]
    ELSE LET seen1 == seen \cup {name} IN
         IF name \in illegal
         THEN [chain |-> <<ImportNode(name, dynamic)>>, seen |-> seen1]
         ELSE LET r == rollup_each(rollup_imports(node), illegal, seen1) IN
              IF Found(r)
              THEN [chain |-> <<ImportNode(name, dynamic)>> \o r.chain, seen |-> r.seen]
              ELSE [chain |-> Null, seen |-> r.seen \ {name}]

\* the body of the `for (const id of ...)` loops
rollup_each(imports, illegal, seen) ==
    IF imports = <<>> THEN [chain |-> Null, seen |-> seen]
    ELSE LET child == node_getter(Head(imports).id)
             r == IF child = NoModule THEN [chain |-> Null, seen |-> seen]
                  ELSE find_illegal_rollup_imports(child, Head(imports).dynamic, illegal, seen)
         IN IF Found(r) THEN r
            ELSE rollup_each(Tail(imports), illegal, r.seen)

\* ----------------------------------------------- find_illegal_vite_imports
DefaultModuleTypes ==
    {".ts", ".js", ".svelte", ".mts", ".mjs", ".cts", ".cjs", ".svelte.md", ".svx", ".md"}

\* a module the live graph knows by url only: its id is null
Unresolved == "(no id)"

\* faulty variant: the configured extensions are left out
get_module_types_defaults(config_module_types) == DefaultModuleTypes
get_module_types(config_module_types) == DefaultModuleTypes \cup config_module_types

\* vite's ModuleNode of node n
ModuleNode(n) ==
    [id |-> IF ext[n] = Unresolved THEN NoId ELSE ModuleId(n),
     importedModules |-> SetToSeq(ImportedModules(n))]

\* { name, dynamic: false }
\* faulty variant: the live-graph variant tags its elements as dynamic
ViteImportNode_dynamic(name) == [name |-> name, dynamic |-> TRUE]
ViteImportNode(name) == [name |-> name, dynamic |-> FALSE]

RECURSIVE find_illegal_vite_imports(_, _, _, _)
RECURSIVE vite_each(_, _, _, _)

find_illegal_vite_imports(node, illegal, module_types, seen) ==
    IF node.id = NoId THEN [chain |-> Null, seen |-> seen]
    ELSE
    LET name == normalizePath(node.id) IN
    IF name \in seen \/ extname(name) \notin module_types
    THEN [chain |-> Null, seen |-> seen]
    ELSE LET seen1 == seen \cup {name} IN
         IF name \in illegal
         THEN [chain |-> <<ViteImportNode(name)>>, seen |-> seen1]
         ELSE LET r == vite_each(node.importedModules, illegal, module_types, seen1) IN
              IF Found(r)
              THEN [chain |-> <<ViteImportNode(name)>> \o r.chain, seen |-> r.seen]
              ELSE [chain |-> Null, seen |-> r.seen \ {name}]

\* the body of `for (const child of node.importedModules)`
vite_each(children, illegal, module_types, seen) ==
    IF children = <<>> THEN [chain |-> Null, seen |-> seen]
    ELSE LET r == find_illegal_vite_imports(ModuleNode(Head(children)), illegal,
                                            module_types, seen)
         IN IF Found(r) THEN r
            ELSE vite_each(Tail(children), illegal, module_types, r.seen)

\* ------------------------------------------- format_illegal_import_chain
\* out_dir is given by the module paths that lie under `${out_dir}/runtime/env`
OutDir == {NumNodes}

format_illegal_import_chain(stack, out_dir) ==
    LET shown == [i \in 1..Len(stack) |->
                    IF stack[i].name.path \in out_dir
                    THEN [stack[i] EXCEPT !.name = [alias |-> "$env", of |-> stack[i].name]]
                    ELSE [stack[i] EXCEPT !.name = [alias |-> "relative", of |-> stack[i].name]]]
        pyramid == [i \in 1..Len(shown) |->
                    [indent |-> (i - 1) * 2, name |-> shown[i].name,
                     note |-> IF shown[i].dynamic THEN "(imported by parent dynamically)"
                              ELSE ""]]
    IN [message |-> "Cannot import into client-side code", target |-> Last(shown).name,
        pyramid |-> pyramid]

NoError == [message |-> "", target |-> Null, pyramid |-> <<>>]

\* ----------------------------------------------------- top-level checks
\* `seen = new Set()`: the default parameter, evaluated at each top-level call
\* faulty variant: one set is shared by all top-level calls
seen_shared == call.seen
seen_default == {}

\* faulty variant: the absent chain is truthy (an empty array)
Thrown_truthy(chain) ==
    [threw |-> TRUE,
     error |-> IF chain # Null THEN format_illegal_import_chain(chain, OutDir) ELSE NoError]
\* faulty variant: the chain found is dropped
Thrown_never(chain) == [threw |-> FALSE, error |-> NoError]
\* `if (chain) throw new Error(format_illegal_import_chain(chain, out_dir))`
Thrown(chain) ==
    IF chain # Null
    THEN [threw |-> TRUE, error |-> format_illegal_import_chain(chain, OutDir)]
    ELSE [threw |-> FALSE, error |-> NoError]

prevent_illegal_rollup_imports(node, illegal) ==
    LET r == find_illegal_rollup_imports(node, FALSE, illegal, seen_default)
    IN [chain |-> r.chain, seen |-> r.seen] @@ Thrown(r.chain)

\* svelte_config.extensions and svelte_config.kit.moduleExtensions
ConfigModuleTypes == {".svelte", ".svx2"}

prevent_illegal_vite_imports(node, illegal, module_types) ==
    LET r == find_illegal_vite_imports(node, illegal, get_module_types(module_types),
                                       seen_default)
    IN [chain |-> r.chain, seen |-> r.seen] @@ Thrown(r.chain)

\* --------------------------------------------- strings and the file system
\* A string is a sequence of tokens; "/" is the path separator.
\* String.prototype.startsWith and String.prototype.slice
StartsWith(s, p) == Len(s) >= Len(p) /\ SubSeq(s, 1, Len(p)) = p
Slice(s, k) == SubSeq(s, k + 1, Len(s))

\* svelte_config.kit.paths.base and .assets, svelte_config.kit.files.assets
Base == <<"/", "app">>
PathsAssets == <<"https://cdn.example">>
SVELTE_KIT_ASSETS == <<"/", "_svelte_kit_assets">>
FilesAssets == <<"static">>

\* `svelte_config.kit.paths.assets ? SVELTE_KIT_ASSETS : svelte_config.kit.paths.base`
assets == IF PathsAssets # <<>> THEN SVELTE_KIT_ASSETS ELSE Base

\* vite_config.server.fs
FsStrict == TRUE
FsAllow == {<<"src">>}

\* the files and directories under the working directory
Cwd == <<".">>
FileSystem ==
    (<<"static">> :> "dir")
    @@ (<<"static", "/", "img">> :> "dir")
    @@ (<<"static", "/", "img", "/", "x.png">> :> "file")
    @@ (<<"static", "foo">> :> "dir")
    @@ (<<"static", "foo", "/", "x.png">> :> "file")
    @@ (<<"src">> :> "dir")
    @@ (<<"src", "/", "a.js">> :> "file")

\* case folding, as a case-insensitive file system does it
Lower(token) ==
    CASE token = "IMG" -> "img"
      [] token = "X.PNG" -> "x.png"
      [] OTHER -> token
Fold(p) == [i \in 1..Len(p) |-> Lower(p[i])]

\* the entry of the file system a path leads to
Missing == <<"ENOENT">>
Real(p) ==
    IF p = Cwd \/ p = <<>> THEN Cwd
    ELSE IF p \in DOMAIN FileSystem THEN p
    ELSE IF case_insensitive /\ \E q \in DOMAIN FileSystem : Fold(q) = Fold(p)
    THEN CHOOSE q \in DOMAIN FileSystem : Fold(q) = Fold(p)
    ELSE Missing

existsSync(p) == Real(p) # Missing
isDirectory(p) == Real(p) = Cwd \/ FileSystem[Real(p)] = "dir"

LastSep(p) ==
    IF \E i \in 1..Len(p) : p[i] = "/"
    THEN CHOOSE i \in 1..Len(p) : p[i] = "/" /\ \A j \in (i + 1)..Len(p) : p[j] # "/"
    ELSE 0
\* path.dirname and path.basename
dirname(p) == IF LastSep(p) = 0 THEN Cwd ELSE SubSeq(p, 1, LastSep(p) - 1)
basename(p) == SubSeq(p, LastSep(p) + 1, Len(p))

\* fs.readdirSync: the names in a directory, as they are on disk
readdirSync(dir) == {basename(q) : q \in {f \in DOMAIN FileSystem : dirname(f) = Real(dir)}}

\* faulty variant: only the last component is compared with the listing
has_correct_case_basename(file, assets_dir) ==
    file = assets_dir \/ basename(file) \in readdirSync(dirname(file))
RECURSIVE has_correct_case(_, _)
has_correct_case(file, assets_dir) ==
    IF file = assets_dir THEN TRUE
    ELSE LET parent == dirname(file) IN
         IF basename(file) \in readdirSync(parent)
         THEN has_correct_case(parent, assets_dir)
         ELSE FALSE

\* ------------------------------------------------------------ environment
EmptyMap == [k \in {} |-> ""]
Restrict(f, S) == [k \in S |-> f[k]]

\* faulty variant: a key is public when the prefix occurs anywhere in it
get_env_includes(entries, prefix) ==
    LET Includes(k) == \E i \in 0..Len(k) : StartsWith(Slice(k, i), prefix) IN
    [public |-> Restrict(entries, {k \in DOMAIN entries : Includes(k)}),
     private |-> Restrict(entries, {k \in DOMAIN entries : ~Includes(k)})]
\* get_env: the entries of loadEnv, split by the prefix
get_env(entries, prefix) ==
    [public |-> Restrict(entries, {k \in DOMAIN entries : StartsWith(k, prefix)}),
     private |-> Restrict(entries, {k \in DOMAIN entries : ~StartsWith(k, prefix)})]

\* what the env modules hold before the first request
EnvUnset == [private |-> [set |-> FALSE, vars |-> EmptyMap],
             public |-> [set |-> FALSE, vars |-> EmptyMap]]

set_private_env(e, entries) == [e EXCEPT !.private = [set |-> TRUE, vars |-> entries]]
\* faulty variant: the public environment is not pushed
set_public_env_skipped(e, entries) == e
set_public_env(e, entries) == [e EXCEPT !.public = [set |-> TRUE, vars |-> entries]]

\* ---------------------------------------------------------- the manifest
\* the object literal update_manifest builds from manifest_data; v tells
\* which sync.update produced the data
ManifestOf(v) ==
    [appDir |-> "_app", assets |-> v, mimeTypes |-> v, nodes |-> v, routes |-> v,
     matchers |-> v]
NoManifest == ManifestOf(0)
ObjectIds == 1..(MaxRebuilds + 1)

\* ------------------------------------------------------------- actions
NoCall == [fn |-> "none", root |-> 0, checked |-> FALSE, chain |-> Null, seen |-> {},
           threw |-> FALSE, error |-> NoError, returned |-> Null]

NoPrev == [known |-> FALSE, fn |-> "none", root |-> 0, chain |-> Null]

Requests == 1..NumRequests

NoHooksFile == {"no hooks file"}
NoThrow == [kind |-> "none", stack |-> "", status |-> 0, reason |-> ""]
NoUrl == [malformed |-> FALSE, pathname |-> <<>>]
NoEnv == [public |-> EmptyMap, private |-> EmptyMap]
\* no event has been emitted
NoEvent == [event |-> "none", file |-> <<>>, count |-> 0]
NoReq == [pc |-> "idle", url |-> NoUrl, thrown |-> NoThrow, stage |-> "none",
          steps |-> <<>>, env |-> NoEnv, hooks |-> <<>>, manifest |-> 0,
          given |-> NoManifest, rendered |-> 0, writes |-> <<>>, began |-> 0]

\* the dev server before dev() has run
DevIdle ==
    /\ manifest = 0
    /\ objects = [i \in ObjectIds |-> NoManifest]
    /\ env = EnvUnset
    /\ dotenv = EmptyMap
    /\ publicPrefix = <<>>
    /\ case_insensitive = FALSE
    /\ user_hooks = NoHooksFile
    /\ req = [r \in Requests |-> NoReq]
    /\ watched = NoEvent

\* no inline_styles call has been made
NoBranches == [b \in {} |-> ""]
NoStyles == [status |-> "idle", node |-> 0, at |-> 0, failed |-> {},
             result |-> [u \in {} |-> ""]]
DepsIdle ==
    /\ ssrTransformResult = {}
    /\ deps = <<>>
    /\ branches = NoBranches
    /\ styles = NoStyles

\* deep_merge has not been called
MergeIdle ==
    /\ heap = <<>>
    /\ merged = <<>>

\* no check is in progress
NoTraversal == [status |-> "idle", fn |-> "none", root |-> 0, stack |-> <<>>, seen |-> {},
                chain |-> <<>>, log |-> <<>>]
TraversalIdle == traversal = NoTraversal

Exts == {".js", ".css"}

EdgeCount ==
    LET RECURSIVE Sum(_)
        Sum(S) == IF S = {} THEN 0
                  ELSE LET n == CHOOSE x \in S : TRUE
                       IN Cardinality(importedIds[n]) + Cardinality(dynamicallyImportedIds[n])
                          + Sum(S \ {n})
    IN Sum(Nodes)

\* a build session or a dev session starts: no import is known yet; in a dev
\* session module 2 may be a stylesheet
Init ==
    /\ mode \in {"build", "dev"}
    /\ importedIds = [n \in Nodes |-> {}]
    /\ dynamicallyImportedIds = [n \in Nodes |-> {}]
    /\ ext \in {e \in [Nodes -> Exts] :
                   /\ \A n \in Nodes : e[n] # ".js" => n = 2
                   /\ mode = "build" => \A n \in Nodes : e[n] = ".js"}
    /\ illegal_imports \in SUBSET Names
    /\ call = NoCall
    /\ prev = NoPrev
    /\ DevIdle
    /\ DepsIdle
    /\ MergeIdle
    /\ TraversalIdle

\* a source file gains an import statement
AddImport(n, m, dynamic) ==
    /\ EdgeCount < MaxEdges
    /\ mode = "dev" => m \in Nodes
    /\ IF dynamic
       THEN /\ m \notin dynamicallyImportedIds[n]
            /\ dynamicallyImportedIds' = [dynamicallyImportedIds EXCEPT ![n] = @ \cup {m}]
            /\ UNCHANGED importedIds
       ELSE /\ m \notin importedIds[n]
            /\ importedIds' = [importedIds EXCEPT ![n] = @ \cup {m}]
            /\ UNCHANGED dynamicallyImportedIds
    /\ call' = NoCall
    /\ prev' = NoPrev
    /\ UNCHANGED <<mode, ext, illegal_imports>>
    /\ UNCHANGED <<dev_vars, deps_vars, merge_vars, traversal_vars>>

Record(fn, root, outcome) ==
    /\ call' = [fn |-> fn, root |-> IF outcome.checked THEN root ELSE 0] @@ outcome
    /\ prev' = IF call.checked /\ outcome.checked /\ call.fn = fn /\ call.root = root
               THEN [known |-> TRUE, fn |-> call.fn, root |-> call.root, chain |-> call.chain]
               ELSE NoPrev

\* the build plugin checks a client entry
PreventRollup(root) ==
    /\ mode = "build"
    /\ Record("rollup", root,
              [checked |-> TRUE, returned |-> Null]
                  @@ prevent_illegal_rollup_imports(ModuleInfo(root), illegal_imports))
    /\ UNCHANGED graph_vars
    /\ UNCHANGED <<dev_vars, deps_vars, merge_vars, traversal_vars>>

\* the node object a manifest node loader resolves to
NodeObject(c) ==
    <<[module |-> c, index |-> c,
       file |-> [url |-> c, query |-> IF ext[c] = ".svelte" THEN "" ELSE "?import"],
       inline_styles |-> "inline_styles"]>>

Rejected(message) ==
    [checked |-> FALSE, chain |-> Null, seen |-> {}, threw |-> TRUE,
     error |-> [message |-> message, target |-> Null, pyramid |-> <<>>], returned |-> Null]

\* a node loader of the manifest runs for component c; `loads` tells whether
\* vite.ssrLoadModule(url) resolves
LoadNode(c, loads) ==
    /\ mode = "dev"
    /\ Record("loader", c,
          IF ~loads THEN Rejected("ssrLoadModule failed")
          ELSE IF c \notin Nodes THEN Rejected("Could not find node")
          ELSE LET p == prevent_illegal_vite_imports(ModuleNode(c), illegal_imports,
                                                     ConfigModuleTypes)
               IN [checked |-> TRUE,
                   returned |-> IF p.threw THEN Null ELSE NodeObject(c)] @@ p)
    /\ UNCHANGED graph_vars
    /\ UNCHANGED <<dev_vars, deps_vars, merge_vars, traversal_vars>>

Next ==
    \/ \E n \in Nodes, m \in Targets, d \in BOOLEAN : AddImport(n, m, d)
    \/ \E root \in Nodes : PreventRollup(root)
    \/ \E c \in Targets, loads \in BOOLEAN : LoadNode(c, loads)

vars == <<mode, importedIds, dynamicallyImportedIds, ext, illegal_imports, call, prev,
          manifest, objects, env, dotenv, publicPrefix, case_insensitive, user_hooks, req,
          watched, ssrTransformResult, deps, branches, styles, heap, merged, traversal>>

Spec == Init /\ [][Next]_vars

\* A dev session over a project with other kinds of files: at most one
\* module is not a .js file; it is a markdown component, a file with a
\* configured extension, a stylesheet, a file without extension, or a
\* module without id. The live graph does not tell dynamic imports apart.
ViteExts == {".js", ".svelte.md", ".svx2", ".css", ".d.css", "", Unresolved}

InitVite ==
    /\ mode = "dev"
    /\ importedIds = [n \in Nodes |-> {}]
    /\ dynamicallyImportedIds = [n \in Nodes |-> {}]
    /\ ext \in {e \in [Nodes -> ViteExts] : Cardinality({n \in Nodes : e[n] # ".js"}) <= 1}
    /\ illegal_imports \in SUBSET Names
    /\ call = NoCall
    /\ prev = NoPrev
    /\ DevIdle
    /\ DepsIdle
    /\ MergeIdle
    /\ TraversalIdle

NextVite ==
    \/ \E n \in Nodes, m \in Nodes : AddImport(n, m, FALSE)
    \/ \E c \in Nodes : LoadNode(c, TRUE)

SpecVite == InitVite /\ [][NextVite]_vars

\* ------------------------------------------------ the traversal, by steps
\* find_illegal_rollup_imports and find_illegal_vite_imports one call and one
\* loop turn at a time: the stack holds the calls that have added their name
\* to seen and have not returned; `at` is the next turn of the loops of a call.
Frame(n, dynamic) == [node |-> n, dynamic |-> dynamic, at |-> 1]

\* the names of the calls on the stack
OnStack(t) == {t.stack[i].node : i \in 1..Len(t.stack)}

\* `const name = normalizePath(node.id)`
NameIn(fn, n) ==
    normalizePath(IF fn = "rollup" THEN ModuleInfo(n).id ELSE ModuleNode(n).id)

\* the turns of the loops of a call for node n, in order: the child each
\* turn gets (0: none) and the `dynamic` argument it passes
Children(fn, n) ==
    IF fn = "rollup"
    THEN LET imports == rollup_imports(ModuleInfo(n))
         IN [i \in 1..Len(imports) |->
                [child |-> IF node_getter(imports[i].id) = NoModule THEN 0
                           ELSE imports[i].id.path,
                 dynamic |-> imports[i].dynamic]]
    ELSE LET importedModules == ModuleNode(n).importedModules
         IN [i \in 1..Len(importedModules) |->
                [child |-> importedModules[i], dynamic |-> FALSE]]

\* the `return null` statements a call reaches before `seen.add(name)`
ReturnsAtOnce(fn, n, seen) ==
    IF fn = "rollup" THEN NameIn(fn, n) \in seen
    ELSE \/ ModuleNode(n).id = NoId
         \/ NameIn(fn, n) \in seen
         \/ extname(NameIn(fn, n)) \notin get_module_types(ConfigModuleTypes)

\* faulty variant: an explored node stays in seen
seen_delete_never(seen, name) == seen
\* seen.delete(name)
seen_delete(seen, name) == seen \ {name}

\* the chain a call returns when its name is forbidden, as the calls on the
\* stack prepend their own element to it
ChainOf(fn, stack) ==
    [i \in 1..Len(stack) |->
        IF fn = "rollup" THEN ImportNode(NameIn(fn, stack[i].node), stack[i].dynamic)
        ELSE ViteImportNode(NameIn(fn, stack[i].node))]

\* the top-level call has returned when no call is left
Unwound(t) ==
    IF t.status = "running" /\ t.stack = <<>> THEN [t EXCEPT !.status = "returned"] ELSE t

\* a call for node n is made: it returns null at once, or adds its name and
\* returns the chain, or adds its name and goes into its loops. The log
\* keeps, for each call, whether n was on the stack and whether the call
\* went on past seen.has
Call(t, n, dynamic) ==
    LET name == NameIn(t.fn, n)
        logged == [t EXCEPT !.log = Append(@, [node |-> n, on_stack |-> n \in OnStack(t),
                                               added |-> ~ReturnsAtOnce(t.fn, n, t.seen)])]
        pushed == [logged EXCEPT !.seen = @ \cup {name},
                                 !.stack = Append(@, Frame(n, dynamic))]
    IN IF ReturnsAtOnce(t.fn, n, t.seen) THEN Unwound(logged)
       ELSE IF name \in illegal_imports
       THEN [pushed EXCEPT !.status = "returned", !.chain = ChainOf(t.fn, pushed.stack),
                           !.stack = <<>>]
       ELSE pushed

\* prevent_illegal_rollup_imports / prevent_illegal_vite_imports call the
\* search with the default `seen = new Set()`
Traverse(fn, root) ==
    /\ traversal.status = "idle"
    /\ mode = IF fn = "rollup" THEN "build" ELSE "dev"
    /\ traversal' = Call([NoTraversal EXCEPT !.status = "running", !.fn = fn, !.root = root,
                                             !.seen = seen_default],
                         root, FALSE)
    /\ UNCHANGED <<graph_vars, check_vars, dev_vars, deps_vars, merge_vars>>

\* the call on top of the stack takes the next turn of its loops, or, with
\* no turn left, deletes its name from seen and returns null
Step ==
    /\ traversal.status = "running"
    /\ LET top == Len(traversal.stack)
           f == traversal.stack[top]
           turns == Children(traversal.fn, f.node)
       IN traversal' =
            IF f.at > Len(turns)
            THEN Unwound([traversal EXCEPT
                            !.seen = seen_delete(@, NameIn(traversal.fn, f.node)),
                            !.stack = SubSeq(@, 1, top - 1)])
            ELSE LET turn == turns[f.at]
                     t1 == [traversal EXCEPT !.stack[top].at = @ + 1]
                 IN IF turn.child = 0 THEN t1 ELSE Call(t1, turn.child, turn.dynamic)
    /\ UNCHANGED <<graph_vars, check_vars, dev_vars, deps_vars, merge_vars>>

\* a build or a dev session; imports are added until a check is started
InitTraversal ==
    /\ mode \in {"build", "dev"}
    /\ importedIds = [n \in Nodes |-> {}]
    /\ dynamicallyImportedIds = [n \in Nodes |-> {}]
    /\ ext \in {e \in [Nodes -> Exts] :
                   /\ \A n \in Nodes : e[n] # ".js" => n = 2
                   /\ mode = "build" => \A n \in Nodes : e[n] = ".js"}
    /\ illegal_imports \in {S \in SUBSET Names : Cardinality(S) <= 1}
    /\ call = NoCall
    /\ prev = NoPrev
    /\ DevIdle
    /\ DepsIdle
    /\ MergeIdle
    /\ TraversalIdle

\* the check is synchronous: no file changes while it runs, and the graphs
\* looked at are those a check is started on
AddImportBefore(n, m, dynamic) == traversal.status = "idle" /\ AddImport(n, m, dynamic)

NextTraversal ==
    \/ \E n \in Nodes, m \in Targets, d \in BOOLEAN : AddImportBefore(n, m, d)
    \/ \E fn \in {"rollup", "loader"}, root \in Nodes : Traverse(fn, root)
    \/ Step

SpecTraversal == InitTraversal /\ [][NextTraversal]_vars

\* ------------------------------------------------------- the dev server
\* thrown values: an Error, an error-like object without a stack, a value
\* that is no error, and the error getRequest rejects with for a bad body
ErrWithStack == [kind |-> "Error", stack |-> "stack", status |-> 0, reason |-> ""]
ErrNoStack == [kind |-> "Error", stack |-> "", status |-> 0, reason |-> ""]
NonError == [kind |-> "value", stack |-> "", status |-> 0, reason |-> ""]
BodyError == [kind |-> "Error", stack |-> "stack", status |-> 413, reason |-> "too large"]
Throwables == {ErrWithStack, ErrNoStack, NonError}

\* the Error the legacy-hook checks throw
MigrationError(hook) ==
    [kind |-> "Error", stack |-> "stack", status |-> 0, reason |-> hook]

\* coalesce_to_error: a thrown value that is no error becomes a generic Error
coalesce_to_error(e) ==
    IF e.kind = "Error" THEN e ELSE [e EXCEPT !.kind = "Error", !.stack = "stack"]

\* faulty variant: the stack is sent as it is
fix_stack_trace_raw(error) == [by |-> "none", text |-> error.stack]
\* error.stack ? vite.ssrRewriteStacktrace(error.stack) : error.stack
fix_stack_trace(error) ==
    IF error.stack # ""
    THEN [by |-> "ssrRewriteStacktrace", text |-> error.stack]
    ELSE [by |-> "none", text |-> error.stack]

Text(t) == [by |-> "none", text |-> t]

\* the requests, by what `new URL(base + req.url).pathname` decodes to (or
\* fails to decode)
Url(p) == [malformed |-> FALSE, pathname |-> p]
Urls ==
    {[malformed |-> TRUE, pathname |-> <<>>],
     Url(<<"/", "_svelte_kit_assets", "/", "img", "/", "x.png">>),
     Url(<<"/", "_svelte_kit_assets", "/", "IMG", "/", "x.png">>),
     Url(<<"/", "_svelte_kit_assets", "/", "img", "/", "X.PNG">>),
     Url(<<"/", "_svelte_kit_assets", "/", "img">>),
     Url(<<"/", "_svelte_kit_assets", "/", "img", "/", "y.png">>),
     Url(<<"/", "_svelte_kit_assets", "foo", "/", "x.png">>),
     Url(<<"/", "src", "/", "a.js">>),
     Url(<<"/", "static", "/", "img", "/", "x.png">>),
     Url(<<"/", "other">>),
     Url(<<"/", "app", "/", "page">>)}

decoded(u) == u.pathname
Malformed(u) == u.malformed

\* the asset middleware: `decoded.startsWith(assets)`, and the file the
\* pathname maps to
UnderAssets(u) == StartsWith(decoded(u), assets)
AssetFile(u) == FilesAssets \o Slice(decoded(u), Len(assets))
IsAssetFile(u) == existsSync(AssetFile(u)) /\ ~isDirectory(AssetFile(u))
CorrectCase(u) == has_correct_case(AssetFile(u), FilesAssets)

\* the dispatcher: `is_file && allowed`, and the base check
DispatchFile(u) == Tail(decoded(u))
IsAllowedFile(u) ==
    /\ existsSync(DispatchFile(u)) /\ ~isDirectory(DispatchFile(u))
    /\ ~FsStrict \/ \E dir \in FsAllow : StartsWith(DispatchFile(u), dir)
InBase(u) == StartsWith(decoded(u), Base)

\* faulty variant: not_found is called without a message
NotFoundMessage_plain(u) == [by |-> "none", text |-> "Not found", url |-> <<>>]
\* `Not found (did you mean ${svelte_config.kit.paths.base + req.url}?)`
NotFoundMessage(u) ==
    [by |-> "none", text |-> "Not found (did you mean ?)", url |-> Base \o u.pathname]

HookFiles ==
    {NoHooksFile, {}, {"handle"}, {"getContext"}, {"handle", "serverFetch"}}

\* the `hooks` object the dispatcher builds from the hooks module
Hooks(exports) ==
    [name \in {"getSession", "handle", "handleError", "externalFetch"} |->
        IF name \in exports THEN "user" ELSE "default"]

\* hooks[name] is truthy
HasHook(hooks, name) == name \in DOMAIN hooks

\* what the handler has done so far
Did(rq, labels) == [rq EXCEPT !.steps = @ \o labels]

\* faulty variant: the handler goes on after it has written the response
Write_and_go_on(rq, by, status, body) ==
    [rq EXCEPT !.writes = Append(@, [by |-> by, status |-> status, body |-> body])]
\* res.statusCode = status; res.end(body), or a responder writing the
\* response; the handler returns
Write(rq, by, status, body) ==
    [rq EXCEPT !.pc = "done",
               !.writes = Append(@, [by |-> by, status |-> status, body |-> body])]

\* the catch block of both middlewares
Caught(rq, e, stage) ==
    [Write(rq, "catch", 500, fix_stack_trace(coalesce_to_error(e)))
        EXCEPT !.thrown = e, !.stage = stage]

Goto(rq, pc) == [rq EXCEPT !.pc = pc]

\* the entries loadEnv returns in the dev session, and the public prefix
DevDotenv == (<<"P", "_", "A">> :> "a") @@ (<<"S", "_", "B">> :> "b")
DevPublicPrefix == <<"P", "_">>

\* dev() has run: the manifest was built once, no request has arrived
InitDev ==
    /\ mode = "dev"
    /\ importedIds = [n \in Nodes |-> {}]
    /\ dynamicallyImportedIds = [n \in Nodes |-> {}]
    /\ ext = [n \in Nodes |-> ".js"]
    /\ illegal_imports = {}
    /\ call = NoCall
    /\ prev = NoPrev
    /\ manifest = 1
    /\ objects = [i \in ObjectIds |-> IF i = 1 THEN ManifestOf(1) ELSE NoManifest]
    /\ env = EnvUnset
    /\ dotenv = DevDotenv
    /\ publicPrefix = DevPublicPrefix
    /\ case_insensitive \in BOOLEAN
    /\ user_hooks \in HookFiles
    /\ req = [r \in Requests |-> NoReq]
    /\ watched = NoEvent
    /\ DepsIdle
    /\ MergeIdle
    /\ TraversalIdle

config_vars == <<dotenv, publicPrefix, case_insensitive, user_hooks>>

\* faulty variant: the object `manifest` refers to is filled again
allocate_in_place(ref) == ref
\* `manifest = { ... }`: the object literal is a new object
allocate(ref) == ref + 1

\* update_manifest: sync.update gives the manifest data, `manifest` is
\* assigned the object built from it
update_manifest ==
    LET last == IF manifest = 0 THEN 0 ELSE objects[manifest].routes
        manifest_data == last + 1
        new == allocate(manifest)
    IN /\ last < MaxRebuilds + 1
       /\ objects' = [objects EXCEPT ![new] = ManifestOf(manifest_data)]
       /\ manifest' = new

\* dev() runs: `update_manifest()` before the watcher handlers and the
\* middlewares are registered
Startup ==
    /\ manifest = 0
    /\ update_manifest
    /\ UNCHANGED <<env, config_vars, req, watched>>
    /\ UNCHANGED <<graph_vars, check_vars, deps_vars, merge_vars, traversal_vars>>

\* svelte_config.kit.files.routes, and the files the watcher reports: two
\* under the routes directory, one in a directory whose name starts like it
\* (src/routes2), one elsewhere
FilesRoutes == <<"src", "/", "routes">>
WatchedFiles ==
    {FilesRoutes \o <<"/", "a.svelte">>,
     FilesRoutes \o <<"/", "blog", "/", "b.svelte">>,
     FilesRoutes \o <<"2", "/", "a.svelte">>,
     <<"src", "/", "lib", "/", "x.js">>}
WatcherEvents == {"add", "unlink", "change"}

\* faulty variant: the separator is left out of the prefix
routes_prefix_no_sep == FilesRoutes
\* `svelte_config.kit.files.routes + path.sep`
routes_prefix == FilesRoutes \o <<"/">>

\* vite.watcher emits an event for a file; dev() has registered a handler
\* for 'add' and for 'unlink', which calls update_manifest for a file under
\* the routes directory
Watcher(event, file) ==
    /\ manifest # 0
    /\ watched.count <= MaxRebuilds
    /\ watched' = [event |-> event, file |-> file, count |-> watched.count + 1]
    /\ IF event \in {"add", "unlink"} /\ StartsWith(file, routes_prefix)
       THEN update_manifest
       ELSE UNCHANGED <<manifest, objects>>
    /\ UNCHANGED <<env, config_vars, req>>
    /\ UNCHANGED <<graph_vars, check_vars, deps_vars, merge_vars, traversal_vars>>

\* a request arrives
Arrive(r, u) ==
    /\ req[r].pc = "idle"
    /\ req' = [req EXCEPT ![r].pc = "asset_check", ![r].url = u]
    /\ UNCHANGED <<manifest, objects, env, config_vars, watched>>
    /\ UNCHANGED <<graph_vars, check_vars, deps_vars, merge_vars, traversal_vars>>

\* the first middleware; e is what the file system calls throw, if anything
AssetMiddleware(r, e) ==
    LET u == req[r].url
        rq == Did(req[r], <<"asset_check">>)
    IN
    /\ req[r].pc = "asset_check"
    /\ e # NoThrow => (~Malformed(u) /\ UnderAssets(u))
    /\ req' = [req EXCEPT ![r] =
          IF Malformed(u) THEN Caught(rq, ErrWithStack, "asset_check")
          ELSE IF e # NoThrow THEN Caught(rq, e, "asset_check")
          ELSE IF UnderAssets(u) /\ IsAssetFile(u) /\ CorrectCase(u)
          THEN Write(Did(rq, <<"asset_server">>), "asset_server", 200, Text("asset"))
          ELSE Goto(rq, "start")]
    /\ UNCHANGED <<manifest, objects, env, config_vars, watched>>
    /\ UNCHANGED <<graph_vars, check_vars, deps_vars, merge_vars, traversal_vars>>

\* the dispatcher up to its first await; e is what fs.statSync or the static
\* middleware throw, if anything. `began` keeps which manifest `manifest`
\* referred to when the handling began (the code keeps no such reference)
Dispatch(r, e) ==
    LET u == req[r].url
        rq == Did(req[r], <<"dispatch">>)
    IN
    /\ req[r].pc = "start"
    /\ req' = [req EXCEPT ![r] =
          IF e # NoThrow THEN Caught(rq, e, "base_check")
          ELSE IF IsAllowedFile(u)
          THEN Write(Did(rq, <<"serve_static">>), "serve_static", 200, Text("file"))
          ELSE IF ~InBase(u)
          THEN Write(Did(rq, <<"not_found">>), "not_found", 404, NotFoundMessage(u))
          ELSE [Goto(rq, "env_private") EXCEPT !.began = manifest]]
    /\ UNCHANGED <<manifest, objects, env, config_vars, watched>>
    /\ UNCHANGED <<graph_vars, check_vars, deps_vars, merge_vars, traversal_vars>>

\* await vite.ssrLoadModule(env-private.js)
EnvPrivateLoaded(r, e) ==
    /\ req[r].pc = "env_private"
    /\ req' = [req EXCEPT ![r] =
          IF e # NoThrow THEN Caught(req[r], e, "env_inject")
          ELSE Goto(Did(req[r], <<"load env-private">>), "env_public")]
    /\ UNCHANGED <<manifest, objects, env, config_vars, watched>>
    /\ UNCHANGED <<graph_vars, check_vars, deps_vars, merge_vars, traversal_vars>>

\* from `const hooks = {...}` to the await of root.svelte
BuildHooks(rq, exports) ==
    LET hooks == Hooks(exports) IN
    IF HasHook(hooks, "getContext")
    THEN Caught(rq, MigrationError("The getContext hook has been removed"), "hooks")
    ELSE IF HasHook(hooks, "serverFetch")
    THEN Caught(rq, MigrationError("The serverFetch hook has been renamed"), "hooks")
    ELSE [Goto(rq, "root") EXCEPT !.hooks = hooks]

\* await vite.ssrLoadModule(env-public.js), then get_env, set_private_env,
\* set_public_env and, when there is a hooks file, the start of its load
EnvPublicLoaded(r, e) ==
    /\ req[r].pc = "env_public"
    /\ IF e # NoThrow
       THEN /\ req' = [req EXCEPT ![r] = Caught(req[r], e, "env_inject")]
            /\ UNCHANGED env
       ELSE LET loaded == get_env(dotenv, publicPrefix)
                rq == [Did(req[r], <<"load env-public", "get_env", "set_private_env",
                                     "set_public_env">>)
                          EXCEPT !.env = loaded]
            IN /\ env' = set_public_env(set_private_env(env, loaded.private), loaded.public)
               /\ req' = [req EXCEPT ![r] =
                     IF user_hooks = NoHooksFile THEN BuildHooks(rq, {})
                     ELSE Goto(rq, "hooks")]
    /\ UNCHANGED <<manifest, objects, config_vars, watched>>
    /\ UNCHANGED <<graph_vars, check_vars, deps_vars, merge_vars, traversal_vars>>

\* await vite.ssrLoadModule(hooks file)
HooksLoaded(r, e) ==
    /\ req[r].pc = "hooks"
    /\ req' = [req EXCEPT ![r] =
          IF e # NoThrow THEN Caught(req[r], e, "hooks")
          ELSE BuildHooks(Did(req[r], <<"load hooks">>), user_hooks)]
    /\ UNCHANGED <<manifest, objects, env, config_vars, watched>>
    /\ UNCHANGED <<graph_vars, check_vars, deps_vars, merge_vars, traversal_vars>>

\* await vite.ssrLoadModule(generated/root.svelte)
RootLoaded(r, e) ==
    /\ req[r].pc = "root"
    /\ req' = [req EXCEPT ![r] =
          IF e # NoThrow THEN Caught(req[r], e, "root")
          ELSE Goto(Did(req[r], <<"load root">>), "paths")]
    /\ UNCHANGED <<manifest, objects, env, config_vars, watched>>
    /\ UNCHANGED <<graph_vars, check_vars, deps_vars, merge_vars, traversal_vars>>

\* await vite.ssrLoadModule(paths.js), set_paths, and the call of getRequest
PathsLoaded(r, e) ==
    /\ req[r].pc = "paths"
    /\ req' = [req EXCEPT ![r] =
          IF e # NoThrow THEN Caught(req[r], e, "paths")
          ELSE Goto(Did(req[r], <<"load paths", "set_paths">>), "request")]
    /\ UNCHANGED <<manifest, objects, env, config_vars, watched>>
    /\ UNCHANGED <<graph_vars, check_vars, deps_vars, merge_vars, traversal_vars>>

\* faulty variant: the manifest is the one of the start of the handling
manifest_option_at_start(rq) == rq.began
\* `manifest,` in the options of respond: the variable is read when the
\* options object is built
manifest_option(rq) == manifest

\* await getRequest(base, req) in its own try, then load_template and the
\* call of respond with the manifest `manifest` refers to now; e is what
\* getRequest rejects with, t what load_template throws
RequestBuilt(r, e, t) ==
    /\ req[r].pc = "request"
    /\ e # NoThrow => t = NoThrow
    /\ req' = [req EXCEPT ![r] =
          IF e # NoThrow
          THEN [Write(req[r], "getRequest", IF e.status # 0 THEN e.status ELSE 400,
                      Text(IF e.reason # "" THEN e.reason ELSE "Invalid request body"))
                   EXCEPT !.thrown = e, !.stage = "request"]
          ELSE IF t # NoThrow THEN Caught(Did(req[r], <<"getRequest">>), t, "template")
          ELSE [Goto(Did(req[r], <<"getRequest", "load_template", "respond">>), "render")
                   EXCEPT !.manifest = manifest_option(req[r]),
                          !.given = objects[manifest_option(req[r])]]]
    /\ UNCHANGED <<manifest, objects, env, config_vars, watched>>
    /\ UNCHANGED <<graph_vars, check_vars, deps_vars, merge_vars, traversal_vars>>

\* the statuses the render function answers with
RenderStatuses == {200, 404, 500}

\* faulty variant: the static responder is tried for every error status
StaticFallback_any_error(status) == status >= 400
\* `rendered.status === 404`
StaticFallback(status) == status = 404

\* await respond(...), then the static fallback or setResponse; e is what
\* respond rejects with, f what the static middleware or setResponse throw,
\* hit whether the static middleware finds a file (it calls its continuation
\* when it does not)
Rendered(r, status, hit, e, f) ==
    LET rq == [Did(req[r], <<"rendered">>) EXCEPT !.rendered = status] IN
    /\ req[r].pc = "render"
    /\ e # NoThrow => (f = NoThrow /\ status = 200)
    /\ hit => (StaticFallback(status) /\ e = NoThrow /\ f = NoThrow)
    /\ req' = [req EXCEPT ![r] =
          IF e # NoThrow THEN Caught(req[r], e, "render")
          ELSE IF StaticFallback(status)
          THEN IF f # NoThrow
               THEN Caught(Did(rq, <<"serve_static">>), f, "static_fallback")
               ELSE IF hit
               THEN Write(Did(rq, <<"serve_static">>), "serve_static", 200, Text("file"))
               ELSE Write(Did(rq, <<"serve_static", "setResponse">>), "setResponse",
                          status, Text("rendered"))
          ELSE IF f # NoThrow THEN Caught(rq, f, "respond")
          ELSE Write(Did(rq, <<"setResponse">>), "setResponse", status, Text("rendered"))]
    /\ UNCHANGED <<manifest, objects, env, config_vars, watched>>
    /\ UNCHANGED <<graph_vars, check_vars, deps_vars, merge_vars, traversal_vars>>

\* what user code (the hooks module, root.svelte, the render function) may
\* throw, and what the file system and the framework's own modules throw
Faults == {NoThrow} \cup Throwables
Errors == {NoThrow, ErrWithStack}

NextDev ==
    \/ \E event \in {"add"}, file \in {FilesRoutes \o <<"/", "a.svelte">>} : Watcher(event, file)
    \/ \E r \in Requests, u \in Urls : Arrive(r, u)
    \/ \E r \in Requests, e \in Errors : AssetMiddleware(r, e)
    \/ \E r \in Requests, e \in Errors : Dispatch(r, e)
    \/ \E r \in Requests, e \in Errors : EnvPrivateLoaded(r, e)
    \/ \E r \in Requests, e \in Errors : EnvPublicLoaded(r, e)
    \/ \E r \in Requests, e \in Faults : HooksLoaded(r, e)
    \/ \E r \in Requests, e \in Faults : RootLoaded(r, e)
    \/ \E r \in Requests, e \in Errors : PathsLoaded(r, e)
    \/ \E r \in Requests, e \in Errors \cup {BodyError}, t \in Errors : RequestBuilt(r, e, t)
    \/ \E r \in Requests, s \in RenderStatuses, hit \in BOOLEAN, e \in Faults, f \in Errors :
          Rendered(r, s, hit, e, f)

SpecDev == InitDev /\ [][NextDev]_vars

\* ------------------------------------------- one request, any environment
\* the keys loadEnv may return and the prefixes that may be configured
EnvKeys == {<<"P", "_", "A">>, <<"P", "_">>, <<"P">>, <<"S", "_", "B">>, <<"A", "P", "_">>}
Prefixes == {<<"P", "_">>, <<"S", "_">>, <<>>}
PageUrl == Url(<<"/", "app", "/", "page">>)

\* dev() has run in a project with any .env entries and any public prefix
InitEnv ==
    /\ mode = "dev"
    /\ importedIds = [n \in Nodes |-> {}]
    /\ dynamicallyImportedIds = [n \in Nodes |-> {}]
    /\ ext = [n \in Nodes |-> ".js"]
    /\ illegal_imports = {}
    /\ call = NoCall
    /\ prev = NoPrev
    /\ manifest = 1
    /\ objects = [i \in ObjectIds |-> IF i = 1 THEN ManifestOf(1) ELSE NoManifest]
    /\ env = EnvUnset
    /\ dotenv \in {[k \in K |-> "value"] : K \in SUBSET EnvKeys}
    /\ publicPrefix \in Prefixes
    /\ case_insensitive = FALSE
    /\ user_hooks = NoHooksFile
    /\ req = [r \in Requests |-> NoReq]
    /\ watched = NoEvent
    /\ DepsIdle
    /\ MergeIdle
    /\ TraversalIdle

\* a page request is handled and nothing throws
NextEnv ==
    \/ Arrive(1, PageUrl)
    \/ AssetMiddleware(1, NoThrow)
    \/ Dispatch(1, NoThrow)
    \/ EnvPrivateLoaded(1, NoThrow)
    \/ EnvPublicLoaded(1, NoThrow)
    \/ RootLoaded(1, NoThrow)
    \/ PathsLoaded(1, NoThrow)
    \/ RequestBuilt(1, NoThrow, NoThrow)
    \/ Rendered(1, 200, FALSE, NoThrow, NoThrow)

SpecEnv == InitEnv /\ [][NextEnv]_vars

\* ------------------------------------------- startup, watcher, one request
\* before dev() has run: no manifest has been built
InitWatch ==
    /\ mode = "dev"
    /\ importedIds = [n \in Nodes |-> {}]
    /\ dynamicallyImportedIds = [n \in Nodes |-> {}]
    /\ ext = [n \in Nodes |-> ".js"]
    /\ illegal_imports = {}
    /\ call = NoCall
    /\ prev = NoPrev
    /\ manifest = 0
    /\ objects = [i \in ObjectIds |-> NoManifest]
    /\ env = EnvUnset
    /\ dotenv = DevDotenv
    /\ publicPrefix = DevPublicPrefix
    /\ case_insensitive = FALSE
    /\ user_hooks = NoHooksFile
    /\ req = [r \in Requests |-> NoReq]
    /\ watched = NoEvent
    /\ DepsIdle
    /\ MergeIdle
    /\ TraversalIdle

\* the middlewares are registered by dev(): no request is handled before
ArriveAfterStartup(r, u) == manifest # 0 /\ Arrive(r, u)

NextWatch ==
    \/ Startup
    \/ \E event \in WatcherEvents, file \in WatchedFiles : Watcher(event, file)
    \/ ArriveAfterStartup(1, PageUrl)
    \/ AssetMiddleware(1, NoThrow)
    \/ Dispatch(1, NoThrow)
    \/ EnvPrivateLoaded(1, NoThrow)
    \/ EnvPublicLoaded(1, NoThrow)
    \/ RootLoaded(1, NoThrow)
    \/ PathsLoaded(1, NoThrow)
    \/ RequestBuilt(1, NoThrow, NoThrow)
    \/ Rendered(1, 200, FALSE, NoThrow, NoThrow)

SpecWatch == InitWatch /\ [][NextWatch]_vars

\* ----------------------------------------------- find_deps, inline_styles
\* The url of a module is its path, its file extension and its query; ext[n]
\* holds the last two.
StyleQuery == ".svelte?svelte&type=style&lang.css"
ScriptQuery == ".svelte?svelte&type=script&lang.ts"
DepExts == {".js", ".css", StyleQuery, ScriptQuery}

\* dep.file: the url without its query
FileOf(n) == IF ext[n] \in {StyleQuery, ScriptQuery} THEN ".svelte" ELSE ext[n]
\* new URL(dep.url, 'http://localhost/').searchParams
SearchParams(n) ==
    IF ext[n] = StyleQuery THEN ("svelte" :> "") @@ ("type" :> "style") @@ ("lang.css" :> "")
    ELSE IF ext[n] = ScriptQuery
    THEN ("svelte" :> "") @@ ("type" :> "script") @@ ("lang.ts" :> "")
    ELSE [k \in {} |-> ""]

\* style_pattern.test(file)
style_pattern(file) ==
    file \in {".css", ".less", ".sass", ".scss", ".styl", ".stylus", ".pcss", ".postcss"}

\* the condition under which inline_styles loads a dependency
IsStyle(n) ==
    \/ style_pattern(FileOf(n))
    \/ LET query == SearchParams(n)
       IN "svelte" \in DOMAIN query /\ "type" \in DOMAIN query /\ query["type"] = "style"

\* dep.url, and the default export of the module at that url
DepUrl(n) == [path |-> n, file |-> FileOf(n), query |-> SearchParams(n)]
DefaultExport(n) == [css |-> n]

\* a find_deps call: for the node inline_styles starts from (top), or for a
\* node that `add` has put into deps
Inv(n, top) == [node |-> n, top |-> top]
\* a branch pushed by the call `inv`: add_by_url(url) or add(node)
Branch(inv, target, kind) == [inv |-> inv, target |-> target, kind |-> kind]

Range(s) == {s[i] : i \in 1..Len(s)}

RECURSIVE find_deps(_, _, _)
RECURSIVE add_each(_, _, _)

\* The synchronous part of find_deps(vite, node, deps), up to
\* `await Promise.all(branches)`: st holds deps and the branches so far.
\* A node with an ssrTransformResult starts one add_by_url per url of deps
\* and of dynamicDeps, each suspended in `await getModuleByUrl(url)`; any
\* other node calls add(node) for each of its importedModules.
find_deps(n, top, st) ==
    IF n \in ssrTransformResult
    THEN [st EXCEPT !.branches =
            [b \in {Branch(Inv(n, top), t, "deps") : t \in importedIds[n]}
                   \cup {Branch(Inv(n, top), t, "dynamicDeps") : t \in dynamicallyImportedIds[n]}
               |-> "getModuleByUrl"] @@ @]
    ELSE add_each(SetToSeq(ImportedModules(n)), Inv(n, top), st)

\* `node.importedModules.forEach((node) => branches.push(add(node)))`
add_each(children, inv, st) ==
    IF children = <<>> THEN st
    ELSE LET c == Head(children)
             b == Branch(inv, c, "importedModules")
         IN IF c \in Range(st.deps)
            THEN add_each(Tail(children), inv,
                          [st EXCEPT !.branches = (b :> "skipped") @@ @])
            ELSE add_each(Tail(children), inv,
                          find_deps(c, FALSE,
                                    [deps |-> Append(st.deps, c),
                                     branches |-> (b :> "find_deps") @@ st.branches]))

Suspended(b) == b \in DOMAIN branches /\ branches[b] = "getModuleByUrl"

RECURSIVE Joined(_)
\* faulty variant: add does not wait for the find_deps call it makes
BranchResolved_unjoined(b) == branches[b] \in {"skipped", "find_deps"}
\* the promise of a branch is resolved: add_by_url found no node, add found
\* the node in deps, or the find_deps call add awaits has resolved
BranchResolved(b) ==
    \/ branches[b] = "skipped"
    \/ branches[b] = "find_deps" /\ Joined(Inv(b.target, FALSE))
\* `await Promise.all(branches)` of the call inv goes on
Joined(inv) == \A b \in DOMAIN branches : b.inv = inv => BranchResolved(b)

\* a rejection of getModuleByUrl rejects every Promise.all above it
Rejects == \E b \in DOMAIN branches : branches[b] = "rejected"

\* the component whose node object inline_styles belongs to
Component == 1

\* the graphs inline_styles runs on: at most MaxEdges imports, all of them
\* in modules the component reaches
ImportStatements == Nodes \X Targets \X {"deps", "dynamicDeps"}
RECURSIVE UpTo(_)
UpTo(k) ==
    IF k = 0 THEN {{}}
    ELSE UpTo(k - 1) \cup {S \cup {e} : S \in UpTo(k - 1), e \in ImportStatements}
DepsGraphs ==
    {S \in UpTo(MaxEdges) :
        LET Out(n) == {e[2] : e \in {x \in S : x[1] = n}} \cap Nodes
            Two == {Component} \cup Out(Component)
            Three == Two \cup UNION {Out(n) : n \in Two}
        IN \A e \in S : e[1] \in Three}

\* the module urls of the two projects looked at
DepsExts ==
    {(1 :> ".js") @@ (2 :> ".css") @@ (3 :> StyleQuery) @@ [n \in Nodes |-> ".js"],
     (1 :> ".css") @@ (2 :> ScriptQuery) @@ (3 :> ".js") @@ [n \in Nodes |-> ".css"]}

\* a dev session with some module graph; no inline_styles call has been made
InitDeps ==
    /\ mode = "dev"
    /\ \E g \in DepsGraphs :
          /\ importedIds = [n \in Nodes |-> {e[2] : e \in {x \in g : x[1] = n /\ x[3] = "deps"}}]
          /\ dynamicallyImportedIds =
                [n \in Nodes |-> {e[2] : e \in {x \in g : x[1] = n /\ x[3] = "dynamicDeps"}}]
    /\ ext \in DepsExts
    /\ ssrTransformResult \in {{}, {1}, Nodes}
    /\ illegal_imports = {}
    /\ call = NoCall
    /\ prev = NoPrev
    /\ DevIdle
    /\ deps = <<>>
    /\ branches = NoBranches
    /\ styles = NoStyles
    /\ MergeIdle
    /\ TraversalIdle

\* inline_styles() of the node object of component c is called:
\* `const deps = new Set(); await find_deps(vite, node, deps)`
InlineStyles(c) ==
    /\ styles.status = "idle"
    /\ LET st == find_deps(c, TRUE, [deps |-> <<>>, branches |-> NoBranches])
       IN /\ deps' = st.deps
          /\ branches' = st.branches
    /\ styles' = [NoStyles EXCEPT !.status = "find_deps", !.node = c]
    /\ UNCHANGED ssrTransformResult
    /\ UNCHANGED <<graph_vars, check_vars, dev_vars, merge_vars, traversal_vars>>

\* `await vite.moduleGraph.getModuleByUrl(url)` of a branch settles (at most
\* one of a walk rejects); when it gives a node, add(node) runs up to its
\* await
add_by_url(b, settles) ==
    /\ Suspended(b)
    /\ ~settles => ~Rejects
    /\ IF ~settles
       THEN /\ branches' = [branches EXCEPT ![b] = "rejected"]
            /\ UNCHANGED deps
       ELSE IF b.target \notin Nodes \/ b.target \in Range(deps)
       THEN /\ branches' = [branches EXCEPT ![b] = "skipped"]
            /\ UNCHANGED deps
       ELSE LET st == find_deps(b.target, FALSE,
                                [deps |-> Append(deps, b.target),
                                 branches |-> [branches EXCEPT ![b] = "find_deps"]])
            IN /\ deps' = st.deps
               /\ branches' = st.branches
    /\ UNCHANGED <<styles, ssrTransformResult>>
    /\ UNCHANGED <<graph_vars, check_vars, dev_vars, merge_vars, traversal_vars>>

\* `await find_deps(vite, node, deps)` in inline_styles goes on, or throws
FindDepsSettled ==
    /\ styles.status = "find_deps"
    /\ Rejects \/ Joined(Inv(styles.node, TRUE))
    /\ styles' = [styles EXCEPT !.status = IF Rejects THEN "rejected" ELSE "loop", !.at = 1]
    /\ UNCHANGED <<deps, branches, ssrTransformResult>>
    /\ UNCHANGED <<graph_vars, check_vars, dev_vars, merge_vars, traversal_vars>>

\* faulty variant: the rejection of ssrLoadModule is not caught
on_load_error_rethrown(s, dep) == [s EXCEPT !.status = "rejected", !.failed = @ \cup {dep}]
\* `catch {}`: the loop goes on with the next dep
on_load_error(s, dep) == [s EXCEPT !.at = @ + 1, !.failed = @ \cup {dep}]

\* one turn of `for (const dep of deps)`, or `return styles` after the last;
\* loads tells whether vite.ssrLoadModule(dep.url) resolves
StyleLoop(loads) ==
    /\ styles.status = "loop"
    /\ IF styles.at > Len(deps)
       THEN loads /\ styles' = [styles EXCEPT !.status = "resolved"]
       ELSE LET dep == deps[styles.at] IN
            IF ~IsStyle(dep)
            THEN loads /\ styles' = [styles EXCEPT !.at = @ + 1]
            ELSE IF loads
            THEN styles' = [styles EXCEPT !.at = @ + 1,
                               !.result = (DepUrl(dep) :> DefaultExport(dep)) @@ @]
            ELSE styles' = on_load_error(styles, dep)
    /\ UNCHANGED <<deps, branches, ssrTransformResult>>
    /\ UNCHANGED <<graph_vars, check_vars, dev_vars, merge_vars, traversal_vars>>

\* the branches a walk may start
Branches ==
    {Branch(Inv(n, top), t, kind) :
        n \in Nodes, top \in BOOLEAN, t \in Targets,
        kind \in {"deps", "dynamicDeps", "importedModules"}}

NextDeps ==
    \/ InlineStyles(Component)
    \/ \E b \in Branches, settles \in BOOLEAN : add_by_url(b, settles)
    \/ FindDepsSettled
    \/ \E loads \in BOOLEAN : StyleLoop(loads)

SpecDeps == InitDeps /\ [][NextDeps]_vars

\* the walk alone, on the first of the two projects: find_deps is called and
\* its branches run; a call of inline_styles may or may not be made, and
\* every promise that is awaited settles
InitWalk == InitDeps /\ ext = [n \in Nodes |-> IF n = 2 THEN ".css" ELSE IF n = 3 THEN StyleQuery ELSE ".js"]

NextWalk ==
    \/ InlineStyles(Component)
    \/ \E b \in Branches, settles \in BOOLEAN : add_by_url(b, settles)
    \/ FindDepsSettled

SpecWalk ==
    /\ InitWalk /\ [][NextWalk]_vars
    /\ WF_vars(\E b \in Branches, settles \in BOOLEAN : add_by_url(b, settles))
    /\ WF_vars(FindDepsSettled)

\* ------------------------------------------------- deep_merge, merge_into
\* Objects and arrays live in a heap and are held by reference. A value is
\* a number, null, undefined or a reference to a heap cell; a cell is a
\* plain object, an array, or an object that is neither (a Date, a Buffer,
\* an instance of a class).
MaxObjects == 2

Num(n) == [t |-> "number", v |-> n]
JsNull == [t |-> "null", v |-> 0]
Undefined == [t |-> "undefined", v |-> 0]
Ref(i) == [t |-> "ref", v |-> i]

Obj(props) == [kind |-> "object", props |-> props, items |-> <<>>]
Arr(items) == [kind |-> "array", props |-> [k \in {} |-> Undefined], items |-> items]
Other == [kind |-> "other", props |-> [k \in {} |-> Undefined], items |-> <<>>]

\* the order in which `for (const prop in b)` visits the properties
KeyOrder == <<"a", "b">>
Keys == {KeyOrder[i] : i \in 1..Len(KeyOrder)}
PropsIn(cell) == SelectSeq(KeyOrder, LAMBDA k : k \in DOMAIN cell.props)

\* a[prop]
Get(h, a, prop) == IF prop \in DOMAIN h[a].props THEN h[a].props[prop] ELSE Undefined
\* a[prop] = v
Put(h, a, prop, v) == [h EXCEPT ![a].props = (prop :> v) @@ @]

\* `typeof x === 'object' && x.constructor === Object`; reading
\* `constructor` of null throws a TypeError
is_plain_object_throws(x) == x.t = "null"
is_plain_object(h, x) == x.t = "ref" /\ h[x.v].kind = "object"
\* Array.isArray(x)
isArray(h, x) == x.t = "ref" /\ h[x.v].kind = "array"

\* a[prop].push(...b[prop]): the elements themselves, not copies of them
push(items, more) == items \o more

RECURSIVE merge_into(_, _, _)
RECURSIVE merge_props(_, _, _, _)

\* merge_into(a, b), where st holds the heap and whether a TypeError was
\* thrown
merge_into(a, b, st) == merge_props(a, b, PropsIn(st.heap[b]), st)

\* the turns of the loop of merge_into for the properties props of b
merge_props(a, b, props, st) ==
    IF props = <<>> \/ st.thrown THEN st
    ELSE LET prop == Head(props)
             h == st.heap
             bv == h[b].props[prop]
             av == Get(h, a, prop)
             fresh == Len(h) + 1
         IN IF is_plain_object_throws(bv) THEN [st EXCEPT !.thrown = TRUE]
            ELSE IF is_plain_object(h, bv)
            THEN IF is_plain_object_throws(av) THEN [st EXCEPT !.thrown = TRUE]
                 ELSE IF is_plain_object(h, av)
                 THEN merge_props(a, b, Tail(props), merge_into(av.v, bv.v, st))
                 ELSE merge_props(a, b, Tail(props),
                        merge_into(fresh, bv.v,
                            [st EXCEPT !.heap =
                                Put(Append(h, Obj([k \in {} |-> Undefined])), a, prop, Ref(fresh))]))
            ELSE IF isArray(h, bv)
            THEN IF isArray(h, av)
                 THEN merge_props(a, b, Tail(props),
                        [st EXCEPT !.heap[av.v].items = push(@, h[bv.v].items)])
                 ELSE merge_props(a, b, Tail(props),
                        [st EXCEPT !.heap =
                            Put(Append(h, Arr(push(<<>>, h[bv.v].items))), a, prop, Ref(fresh))])
            ELSE merge_props(a, b, Tail(props), [st EXCEPT !.heap = Put(h, a, prop, bv)])

RECURSIVE merge_each(_, _, _)
\* objects.forEach((o) => merge_into(result, o))
merge_each(result, objs, st) ==
    IF objs = <<>> THEN st
    ELSE merge_each(result, Tail(objs), merge_into(result, Head(objs), st))

\* deep_merge(...objects) on the heap h: result is a new object
deep_merge(objs, h) ==
    merge_each(Len(h) + 1, objs,
               [heap |-> Append(h, Obj([k \in {} |-> Undefined])), thrown |-> FALSE])

\* The inputs looked at: cells 1 and 2 are the objects that are passed,
\* cells 3 and 4 are what they hold (cell 3 may hold cell 4).
Maps(keys, values) == UNION {[K -> values] : K \in SUBSET keys}
InputHeaps ==
    {<<Obj(p1), Obj(p2), c3, c4>> :
        p1 \in Maps(Keys, {Num(1), JsNull, Ref(3), Ref(4)}),
        p2 \in Maps({"a"}, {Num(2), Ref(3), Ref(4)}),
        c3 \in {Obj(p) : p \in Maps({"a"}, {Num(1), Ref(4)})}
               \cup {Arr(<<>>), Arr(<<Num(1)>>), Arr(<<Ref(4)>>), Other},
        c4 \in {Obj([k \in {} |-> Undefined]), Obj("b" :> Num(2)), Arr(<<Num(2)>>), Other}}

NoMerge == [status |-> "idle", result |-> 0, args |-> <<>>, before |-> <<>>]

\* the calls looked at: up to MaxObjects of the two objects, in any order
RECURSIVE SeqsUpTo(_, _)
SeqsUpTo(S, n) ==
    IF n = 0 THEN {<<>>}
    ELSE SeqsUpTo(S, n - 1) \cup {Append(s, x) : s \in SeqsUpTo(S, n - 1), x \in S}
Arguments == SeqsUpTo({1, 2}, MaxObjects)

InitMerge ==
    /\ mode = "dev"
    /\ importedIds = [n \in Nodes |-> {}]
    /\ dynamicallyImportedIds = [n \in Nodes |-> {}]
    /\ ext = [n \in Nodes |-> ".js"]
    /\ illegal_imports = {}
    /\ call = NoCall
    /\ prev = NoPrev
    /\ DevIdle
    /\ DepsIdle
    /\ heap \in InputHeaps
    /\ merged = NoMerge
    /\ TraversalIdle

\* `deep_merge(...objects)` is called and returns or throws
DeepMerge(objs) ==
    /\ merged.status = "idle"
    /\ LET st == deep_merge(objs, heap)
       IN /\ heap' = st.heap
          /\ merged' = [status |-> IF st.thrown THEN "thrown" ELSE "returned",
                        result |-> Len(heap) + 1,
                        args |-> objs,
                        before |-> heap]
    /\ UNCHANGED <<graph_vars, check_vars, dev_vars, deps_vars, traversal_vars>>

NextMerge == \E objs \in Arguments : DeepMerge(objs)

SpecMerge == InitMerge /\ [][NextMerge]_vars

\* ------------------------------------------------ graph-theoretic notions
\* (used by the properties only; the checker does not use them)
StaticEdge(a, b) == b \in importedIds[a] \cap Nodes
DynamicEdge(a, b) == b \in dynamicallyImportedIds[a] \cap Nodes
Edge(a, b) == StaticEdge(a, b) \/ DynamicEdge(a, b)

Forbidden == {n \in Nodes : NameOf(n) \in illegal_imports}

\* the nodes reachable from the nodes of S by paths that stay out of `avoid`
RECURSIVE Reach(_, _)
Reach(S, avoid) ==
    LET T == S \ avoid
        more == T \cup {b \in Nodes \ avoid : \E a \in T : Edge(a, b)}
    IN IF more = T THEN T ELSE Reach(more, avoid)

ForbiddenReachable(S, avoid) == Reach(S, avoid) \cap Forbidden # {}

OnCycle(n) == \E m \in Nodes : Edge(n, m) /\ n \in Reach({m}, {})

ChainNode(i) == call.chain[i].name.path
ChainLen == Len(call.chain)

\* ------------------------------------------------------------ properties

\* C1: when no path of static or dynamic import edges leads from the root to
\* a forbidden id, cycles or not, the check returns no chain and the
\* prevent_* function does not throw.
C1_NoPathNoViolation ==
    (call.checked /\ ~ForbiddenReachable({call.root}, {}))
        => (call.chain = Null /\ ~call.threw)

C1_Witness ==
    /\ call.checked
    /\ OnCycle(call.root)
    /\ Forbidden # {}
    /\ ~ForbiddenReachable({call.root}, {})
    /\ call.chain = Null /\ ~call.threw

\* C2: in the build-time checker, when a forbidden id is reachable from the
\* root through resolved static and/or dynamic import edges, cycles or not,
\* a non-empty chain is returned.
C2_ReachableIsFound ==
    (call.fn = "rollup" /\ ForbiddenReachable({call.root}, {})) => Found(call)

C2_Witness ==
    /\ call.fn = "rollup"
    /\ OnCycle(call.root)
    /\ \E a, b \in Nodes : DynamicEdge(a, b) /\ ~StaticEdge(a, b)
    /\ ChainLen = 3

\* C3: a returned chain is a simple path from the root to the first
\* forbidden node: it starts at the root, consecutive elements are import
\* edges, the last element is forbidden, no earlier element is, and no id
\* occurs twice.
C3_ChainIsSimplePath ==
    (call.checked /\ Found(call)) =>
        /\ call.chain[1].name = NameOf(call.root)
        /\ \A i \in 1..ChainLen : call.chain[i].name \in Names
        /\ \A i \in 1..(ChainLen - 1) : Edge(ChainNode(i), ChainNode(i + 1))
        /\ call.chain[ChainLen].name \in illegal_imports
        /\ \A i \in 1..(ChainLen - 1) : call.chain[i].name \notin illegal_imports
        /\ \A i, j \in 1..ChainLen : i # j => call.chain[i].name # call.chain[j].name

C3_Witness ==
    /\ call.checked /\ Found(call)
    /\ ChainLen = 3
    /\ Cardinality(Forbidden) = 1
    /\ OnCycle(ChainNode(2))

\* C4: in the build-time checker an element of the chain is tagged dynamic
\* exactly when the edge by which the chain enters it is a dynamic import,
\* and the root's element is never dynamic; A -> B -> C with forbidden {C}
\* gives [{A,false},{B,false},{C,false}], and [{A,false},{B,false},{C,true}]
\* when the edge into C is the dynamic one.
C4_DynamicTagsEdge ==
    (call.fn = "rollup" /\ Found(call)) =>
        /\ ~call.chain[1].dynamic
        /\ \A i \in 2..ChainLen :
              call.chain[i].dynamic <=> ~StaticEdge(ChainNode(i - 1), ChainNode(i))
        /\ (/\ call.root = 1
            /\ illegal_imports = {NameOf(3)}
            /\ importedIds[1] = {2} /\ dynamicallyImportedIds[1] = {}
            /\ importedIds[3] = {} /\ dynamicallyImportedIds[3] = {}
            /\ importedIds[2] \cup dynamicallyImportedIds[2] = {3}
            /\ importedIds[2] \cap dynamicallyImportedIds[2] = {})
           => call.chain = <<[name |-> NameOf(1), dynamic |-> FALSE],
                             [name |-> NameOf(2), dynamic |-> FALSE],
                             [name |-> NameOf(3), dynamic |-> (3 \in dynamicallyImportedIds[2])]>>

C4_Witness ==
    /\ call.fn = "rollup" /\ call.root = 1
    /\ illegal_imports = {NameOf(3)}
    /\ importedIds = [n \in Nodes |-> IF n = 1 THEN {2} ELSE {}]
    /\ dynamicallyImportedIds = [n \in Nodes |-> IF n = 2 THEN {3} ELSE {}]
    /\ call.chain = <<[name |-> NameOf(1), dynamic |-> FALSE],
                      [name |-> NameOf(2), dynamic |-> FALSE],
                      [name |-> NameOf(3), dynamic |-> TRUE]>>

\* the graph is the path the live-graph check returned, and exactly one edge
\* of it is a dynamic import
OneDynamicEdgeOnChain ==
    /\ call.fn = "loader" /\ Found(call)
    /\ EdgeCount = ChainLen - 1
    /\ Cardinality({i \in 2..ChainLen : ~StaticEdge(ChainNode(i - 1), ChainNode(i))}) = 1

\* C5 as stated: in the live-graph variant, when the only path to a forbidden
\* id passes through one dynamically imported edge, the element entered
\* through that edge has dynamic: true and the others reflect their edge kind.
C5_Original ==
    OneDynamicEdgeOnChain =>
        /\ ~call.chain[1].dynamic
        /\ \A i \in 2..ChainLen :
              call.chain[i].dynamic <=> ~StaticEdge(ChainNode(i - 1), ChainNode(i))

\* C5 as amended: the live-graph variant does not tell dynamic imports from
\* static ones; every element of a chain it returns has dynamic: false, also
\* the element entered through a dynamically imported edge.
C5_ViteChainNeverDynamic ==
    (call.fn = "loader" /\ Found(call)) =>
        \A i \in 1..ChainLen : ~call.chain[i].dynamic

C5_Witness ==
    /\ OneDynamicEdgeOnChain
    /\ ChainLen = 3
    /\ \A i \in 1..ChainLen : ~call.chain[i].dynamic

\* the nodes of the chain up to and including element i
ChainPrefix(i) == {ChainNode(j) : j \in 1..i}

\* C6 as stated: whenever at a node of the chain a forbidden id is reachable
\* both through one of its static imports and through one of its dynamic
\* imports, the chain continues from that node through a static import.
C6_Original ==
    (call.fn = "rollup" /\ Found(call)) =>
        \A i \in 1..(ChainLen - 1) :
            (/\ \E s \in Nodes : StaticEdge(ChainNode(i), s) /\ ForbiddenReachable({s}, {})
             /\ \E d \in Nodes : DynamicEdge(ChainNode(i), d) /\ ForbiddenReachable({d}, {}))
            => ~call.chain[i + 1].dynamic

\* C6 as amended: whenever at a node of the chain a forbidden id is reachable
\* through one of its static imports and through one of its dynamic imports
\* by paths that do not pass through the nodes of the chain up to and
\* including that node, the chain continues through a static import.
C6_StaticBeforeDynamic ==
    (call.fn = "rollup" /\ Found(call)) =>
        \A i \in 1..(ChainLen - 1) :
            (/\ \E s \in Nodes : /\ StaticEdge(ChainNode(i), s)
                                 /\ ForbiddenReachable({s}, ChainPrefix(i))
             /\ \E d \in Nodes : /\ DynamicEdge(ChainNode(i), d)
                                 /\ ForbiddenReachable({d}, ChainPrefix(i)))
            => ~call.chain[i + 1].dynamic

C6_Witness ==
    /\ call.fn = "rollup" /\ Found(call)
    /\ ChainLen = 3
    /\ DynamicEdge(ChainNode(1), ChainNode(3)) /\ ~StaticEdge(ChainNode(1), ChainNode(3))
    /\ ~call.chain[2].dynamic

C8_ViolationIsFatal ==
    call.checked =>
        /\ call.threw <=> Found(call)
        /\ call.threw =>
              /\ Len(call.error.pyramid) = ChainLen
              /\ \A i \in 1..ChainLen :
                    /\ call.error.pyramid[i].name.of = call.chain[i].name
                    /\ (call.error.pyramid[i].note # "") <=> call.chain[i].dynamic
              /\ call.error.target.of = call.chain[ChainLen].name
        /\ (call.fn = "loader" /\ ForbiddenReachable({call.root}, {n \in Nodes : ext[n] = ".css"}))
              => (call.threw /\ call.returned = Null)
        /\ (call.fn = "loader" /\ Found(call)) => call.returned = Null

C8_Witness ==
    /\ call.fn = "loader" /\ call.checked
    /\ Found(call) /\ ChainLen >= 2
    /\ call.threw /\ call.returned = Null

\* ------------------------------------------------- dispatcher properties
LegacyExports ==
    user_hooks # NoHooksFile /\ (user_hooks \cap {"getContext", "serverFetch"}) # {}

\* C9: a hooks module that exports getContext (or serverFetch) makes the
\* dispatcher fail with the migration error before the render function is
\* invoked; the request never goes on past the hooks with the legacy hook
\* ignored.
C9_LegacyHookFailsFast ==
    LegacyExports =>
        \A r \in Requests :
            /\ req[r].pc \notin {"root", "paths", "request", "render"}
            /\ req[r].stage \notin {"root", "paths", "request", "template", "render",
                                    "respond", "static_fallback"}
            /\ \A i \in 1..Len(req[r].writes) : req[r].writes[i].by # "setResponse"

\* the stack of the error the catch block answers with
CoercedStack(e) == IF e.kind = "Error" THEN e.stack ELSE "stack"

\* C10 as stated: an error thrown in any dispatcher state, request
\* construction included, is answered with status 500 whose body is the
\* error's stack rewritten through the stack-trace rewriter, and with nothing
\* else.
C10_Original ==
    \A r \in Requests :
        req[r].thrown # NoThrow =>
            /\ req[r].pc = "done"
            /\ Len(req[r].writes) = 1
            /\ req[r].writes[1].status = 500
            /\ req[r].writes[1].body.text = CoercedStack(req[r].thrown)
            /\ CoercedStack(req[r].thrown) # ""
                  => req[r].writes[1].body.by = "ssrRewriteStacktrace"

\* C10 as amended: an error thrown in a dispatcher state other than request
\* construction is caught and answered with status 500 whose body is the
\* error's stack, rewritten through the stack-trace rewriter when the error
\* has a stack; an error getRequest rejects with is answered with its status
\* (400 when it has none) and its reason (or 'Invalid request body'); no
\* thrown error is answered twice or left unanswered.
C10_ThrownIsAnswered ==
    \A r \in Requests :
        req[r].thrown # NoThrow =>
            /\ req[r].pc = "done"
            /\ Len(req[r].writes) = 1
            /\ IF req[r].stage = "request"
               THEN /\ req[r].writes[1].by = "getRequest"
                    /\ req[r].writes[1].status =
                          (IF req[r].thrown.status # 0 THEN req[r].thrown.status ELSE 400)
                    /\ req[r].writes[1].body.text =
                          (IF req[r].thrown.reason # "" THEN req[r].thrown.reason
                           ELSE "Invalid request body")
               ELSE /\ req[r].writes[1].by = "catch"
                    /\ req[r].writes[1].status = 500
                    /\ req[r].writes[1].body.text = CoercedStack(req[r].thrown)
                    /\ (req[r].writes[1].body.by = "ssrRewriteStacktrace")
                          <=> (CoercedStack(req[r].thrown) # "")

C10_Witness ==
    \E r \in Requests :
        /\ req[r].thrown = NonError /\ req[r].stage = "render"
        /\ req[r].writes = <<[by |-> "catch", status |-> 500,
                              body |-> [by |-> "ssrRewriteStacktrace", text |-> "stack"]]>>

\* the steps of a request and their order
Steps(r) == {req[r].steps[i] : i \in 1..Len(req[r].steps)}
StepAt(r, label) == CHOOSE i \in 1..Len(req[r].steps) : req[r].steps[i] = label
Before(r, a, b) == a \in Steps(r) /\ (b \in Steps(r) => StepAt(r, a) < StepAt(r, b))

EnvSteps == {"load env-private", "load env-public", "get_env", "set_private_env",
             "set_public_env"}
HookSteps == {"load hooks"}
RenderSteps == {"load root", "load paths", "set_paths", "getRequest", "load_template",
                "respond", "rendered", "setResponse"}

OutsideBase(u) == ~u.malformed /\ ~(Len(u.pathname) >= 2 /\ SubSeq(u.pathname, 1, 2) = Base)

\* the message of the base check for the request r
DidYouMean(r) ==
    [by |-> "none", text |-> "Not found (did you mean ?)",
     url |-> <<"/", "app">> \o req[r].url.pathname]

\* C11 as stated: a request whose decoded pathname does not start with the
\* base path is answered with a 404 whose message references the
\* base-prefixed URL, and never reaches environment injection, hook loading,
\* rendering or any file serving by the dispatcher (an error thrown on the
\* way apart).
C11_Original ==
    \A r \in Requests :
        (OutsideBase(req[r].url) /\ "dispatch" \in Steps(r)) =>
            /\ Steps(r) \cap (EnvSteps \cup HookSteps \cup RenderSteps \cup {"serve_static"}) = {}
            /\ req[r].thrown = NoThrow =>
                  req[r].writes = <<[by |-> "not_found", status |-> 404,
                                     body |-> DidYouMean(r)]>>

\* the request maps to a file of the working directory that the static
\* middleware may serve
ServableFile(u) ==
    LET file == Tail(u.pathname)
    IN /\ \E q \in DOMAIN FileSystem :
             /\ FileSystem[q] = "file"
             /\ q = file \/ (case_insensitive /\ Fold(q) = Fold(file))
       /\ \E dir \in FsAllow : Len(file) >= Len(dir) /\ SubSeq(file, 1, Len(dir)) = dir

\* C11 as amended: the dispatcher first hands a request that maps to an
\* existing, allowed file to the static file middleware, inside the base path
\* or not; any other request whose decoded pathname does not start with the
\* base path is answered with a 404 whose message references the
\* base-prefixed URL (with 500 when a file-system call throws); no request
\* outside the base path reaches environment injection, hook loading or
\* rendering.
C11_OutsideBaseNotFound ==
    \A r \in Requests :
        (OutsideBase(req[r].url) /\ "dispatch" \in Steps(r)) =>
            /\ Steps(r) \cap (EnvSteps \cup HookSteps \cup RenderSteps) = {}
            /\ req[r].pc = "done"
            /\ IF req[r].thrown # NoThrow
               THEN req[r].writes[1].status = 500 /\ req[r].stage = "base_check"
               ELSE IF ServableFile(req[r].url)
               THEN req[r].writes = <<[by |-> "serve_static", status |-> 200,
                                       body |-> Text("file")]>>
               ELSE req[r].writes = <<[by |-> "not_found", status |-> 404,
                                       body |-> DidYouMean(r)]>>

C11_Witness ==
    \E r \in Requests :
        /\ req[r].url = Url(<<"/", "other">>)
        /\ req[r].pc = "done"
        /\ req[r].steps = <<"asset_check", "dispatch", "not_found">>
        /\ req[r].writes = <<[by |-> "not_found", status |-> 404,
                              body |-> [by |-> "none", text |-> "Not found (did you mean ?)",
                                        url |-> <<"/", "app", "/", "other">>]]>>

\* the path of the assets directory the request names, when its pathname
\* lies under the assets path
UnderAssetsPath(u) ==
    /\ ~u.malformed
    /\ Len(u.pathname) > 3
    /\ SubSeq(u.pathname, 1, 3) = <<"/", "_svelte_kit_assets", "/">>
NamedAsset(u) == <<"static", "/">> \o SubSeq(u.pathname, 4, Len(u.pathname))

\* the file exists (under the lookup rule of the file system) and is no
\* directory
AssetExists(u) ==
    \E q \in DOMAIN FileSystem :
        /\ FileSystem[q] = "file"
        /\ q = NamedAsset(u) \/ (case_insensitive /\ Fold(q) = Fold(NamedAsset(u)))

\* every component of the path is on disk under the very name requested
ByteIdentical(u) == NamedAsset(u) \in DOMAIN FileSystem

\* C12: the asset middleware hands the request to the asset responder only
\* when the pathname starts with the assets path and the mapped file exists,
\* is no directory and is named byte for byte as on disk, component by
\* component; in every other case (a case mismatch on a case-insensitive
\* file system included) the request is passed on and not served by the
\* asset responder.
C12_AssetServedOnlyInExactCase ==
    \A r \in Requests :
        LET u == req[r].url
            ok == UnderAssetsPath(u) /\ AssetExists(u) /\ ByteIdentical(u)
        IN /\ "asset_server" \in Steps(r) => ok
           /\ ("asset_check" \in Steps(r) /\ ~ok /\ req[r].thrown = NoThrow) =>
                 /\ "asset_server" \notin Steps(r)
                 /\ \A i \in 1..Len(req[r].writes) : req[r].writes[i].by # "asset_server"
                 /\ req[r].pc = "start" \/ "dispatch" \in Steps(r)

C12_Witness ==
    /\ case_insensitive
    /\ \E r \in Requests :
          /\ req[r].url = Url(<<"/", "_svelte_kit_assets", "/", "IMG", "/", "x.png">>)
          /\ AssetExists(req[r].url)
          /\ req[r].steps = <<"asset_check", "dispatch", "not_found">>
    /\ \E r \in Requests :
          /\ req[r].url = Url(<<"/", "_svelte_kit_assets", "/", "img", "/", "x.png">>)
          /\ req[r].writes = <<[by |-> "asset_server", status |-> 200, body |-> Text("asset")]>>

\* the places where the hooks module or route code runs, or may be running
UserCodeRuns(r) ==
    \/ req[r].pc \in {"hooks", "root", "paths", "request", "render"}
    \/ Steps(r) \cap (HookSteps \cup RenderSteps) # {}

\* the entries of the environment source with, and without, the public prefix
PublicEntries ==
    Restrict(dotenv, {k \in DOMAIN dotenv :
        Len(k) >= Len(publicPrefix) /\ SubSeq(k, 1, Len(publicPrefix)) = publicPrefix})
PrivateEntries == Restrict(dotenv, DOMAIN dotenv \ DOMAIN PublicEntries)

\* C13: in every request that passes the base check, set_private_env and
\* set_public_env have both been called with the entries of the current
\* mode before the hooks module is loaded and before the render function is
\* invoked, and no suspension point lies between the two calls: under any
\* interleaving of requests no hook or route code runs with one of the two
\* environments set and the other not.
C13_EnvSetBeforeUserCode ==
    /\ env.private.set <=> env.public.set
    /\ \A r \in Requests :
          UserCodeRuns(r) =>
              /\ env.private = [set |-> TRUE, vars |-> PrivateEntries]
              /\ env.public = [set |-> TRUE, vars |-> PublicEntries]
              /\ \A s \in HookSteps \cup RenderSteps :
                    Before(r, "set_private_env", s) /\ Before(r, "set_public_env", s)
              /\ StepAt(r, "set_public_env") = StepAt(r, "set_private_env") + 1

C13_Witness ==
    \E r1, r2 \in Requests :
        /\ req[r1].pc = "hooks"
        /\ req[r2].pc = "env_public"
        /\ env.private.set /\ env.public.set
        /\ DOMAIN env.public.vars # {} /\ DOMAIN env.private.vars # {}

\* C14: after RENDER the static-file responder is invoked if and only if the
\* rendered response has status 404; then the rendered 404 is written only if
\* the static responder misses, and for every other status the rendered
\* response is written directly, the static responder not consulted.
C14_FallbackOnlyOn404 ==
    \A r \in Requests :
        "rendered" \in Steps(r) =>
            /\ "serve_static" \in Steps(r) <=> req[r].rendered = 404
            /\ req[r].thrown = NoThrow =>
                  IF req[r].rendered = 404
                  THEN \/ req[r].writes = <<[by |-> "serve_static", status |-> 200,
                                             body |-> Text("file")]>>
                       \/ /\ req[r].writes = <<[by |-> "setResponse", status |-> 404,
                                                body |-> Text("rendered")]>>
                          /\ Before(r, "serve_static", "setResponse")
                  ELSE req[r].writes = <<[by |-> "setResponse", status |-> req[r].rendered,
                                          body |-> Text("rendered")]>>

C14_Witness ==
    \E r1, r2 \in Requests :
        /\ req[r1].rendered = 404
        /\ req[r1].writes = <<[by |-> "setResponse", status |-> 404, body |-> Text("rendered")]>>
        /\ "serve_static" \in Steps(r1)
        /\ req[r2].rendered = 500
        /\ req[r2].writes = <<[by |-> "setResponse", status |-> 500, body |-> Text("rendered")]>>

\* a manifest built in full by one update_manifest call
Complete(m) == \E v \in ObjectIds : m = ManifestOf(v)

\* the manifest each render was given is complete and is as it was given
C15_GivenIsKept ==
    \A r \in Requests :
        "respond" \in Steps(r) =>
            /\ Complete(req[r].given)
            /\ objects[req[r].manifest] = req[r].given

\* a step that touches the manifest assigns `manifest` one new, complete
\* object and leaves every object published before as it was
C15_OneAssignment ==
    (manifest' # manifest \/ objects' # objects) =>
        /\ manifest' # manifest
        /\ objects[manifest'] = NoManifest
        /\ Complete(objects'[manifest'])
        /\ \A id \in ObjectIds \ {manifest'} : objects'[id] = objects[id]

\* C15: under any interleaving of watcher events and requests in flight, the
\* manifest handed to the render function is one built in full by a single
\* update_manifest call: update_manifest assigns the shared reference once,
\* never mutates a manifest published before, and a rebuild during a render
\* leaves the manifest that render was given unchanged.
C15_ManifestIsAtomic == []C15_GivenIsKept /\ [][C15_OneAssignment]_vars

C15_Witness ==
    \E r \in Requests :
        /\ req[r].pc = "render"
        /\ req[r].manifest = 1 /\ manifest = 2
        /\ req[r].given = ManifestOf(1) /\ objects[1] = ManifestOf(1)
        /\ objects[2] = ManifestOf(2)

\* C16: get_env partitions the entries by the public prefix: a key is in the
\* public map exactly when it starts with the prefix and in the private map
\* exactly when it does not; the maps are disjoint, together they hold every
\* loaded entry, and the public_env handed to the render function holds no
\* key that lacks the prefix.
C16_EnvIsPartitioned ==
    \A r \in Requests :
        "get_env" \in Steps(r) =>
            /\ req[r].env.public = PublicEntries
            /\ req[r].env.private = PrivateEntries
            /\ DOMAIN req[r].env.public \cap DOMAIN req[r].env.private = {}
            /\ DOMAIN req[r].env.public \cup DOMAIN req[r].env.private = DOMAIN dotenv
            /\ \A k \in DOMAIN dotenv :
                  /\ k \in DOMAIN req[r].env.public => req[r].env.public[k] = dotenv[k]
                  /\ k \in DOMAIN req[r].env.private => req[r].env.private[k] = dotenv[k]
            /\ "respond" \in Steps(r) =>
                  \A k \in DOMAIN req[r].env.public :
                      /\ Len(k) >= Len(publicPrefix)
                      /\ SubSeq(k, 1, Len(publicPrefix)) = publicPrefix

C16_Witness ==
    \E r \in Requests :
        /\ "respond" \in Steps(r)
        /\ publicPrefix = <<"P", "_">>
        /\ DOMAIN dotenv = EnvKeys
        /\ DOMAIN req[r].env.public = {<<"P", "_", "A">>, <<"P", "_">>}
        /\ DOMAIN req[r].env.private = {<<"P">>, <<"S", "_", "B">>, <<"A", "P", "_">>}

\* the modules the component reaches by one or more import edges
Dependencies == Reach({b \in Nodes : Edge(Component, b)}, {})

\* the stylesheets among a set of modules: a style file, or a svelte module
\* asked for with type=style
Stylesheets(S) == {n \in S : ext[n] \in {".css", StyleQuery}}

\* the deps the loop of inline_styles has dealt with
Looped == {deps[i] : i \in 1..(IF styles.at - 1 < Len(deps) THEN styles.at - 1 ELSE Len(deps))}

\* C17: a stylesheet that fails to load is not fatal: inline_styles never
\* rejects because loading a collected dependency failed, and its result
\* maps exactly the urls of the collected dependencies that are stylesheets
\* and loaded to their default export; a failure removes no other entry.
C17_LoadFailuresAreSwallowed ==
    /\ styles.status = "rejected" => (Rejects /\ styles.failed = {})
    /\ styles.status \in {"loop", "resolved"} =>
          /\ DOMAIN styles.result =
                {[path |-> n, file |-> FileOf(n), query |-> SearchParams(n)] :
                    n \in Stylesheets(Looped) \ styles.failed}
          /\ \A n \in Stylesheets(Looped) \ styles.failed :
                styles.result[[path |-> n, file |-> FileOf(n), query |-> SearchParams(n)]]
                    = [css |-> n]
    /\ styles.status = "resolved" => Looped = Range(deps)

C17_Witness ==
    /\ styles.status = "resolved"
    /\ Range(deps) = {2, 3}
    /\ ext[2] = ".css" /\ ext[3] = StyleQuery
    /\ styles.failed = {2}
    /\ DOMAIN styles.result = {[path |-> 3, file |-> ".svelte", query |-> SearchParams(3)]}

\* find_deps has resolved: inline_styles has gone on past its await
FindDepsResolved == styles.status \in {"loop", "resolved"}

\* when find_deps has resolved no branch is left, and deps holds the
\* dependencies of the component, each once
C19_DepsAreComplete ==
    FindDepsResolved =>
        /\ \A b \in DOMAIN branches : branches[b] # "getModuleByUrl"
        /\ Range(deps) = Dependencies
        /\ Len(deps) = Cardinality(Dependencies)

\* the promise of find_deps has settled and no branch is suspended
WalkIsOver ==
    /\ styles.status \notin {"idle", "find_deps"}
    /\ \A b \in DOMAIN branches : branches[b] # "getModuleByUrl"

\* C19: on every module graph, cyclic ones included, and under every
\* interleaving of the parallel branches, find_deps terminates, and when its
\* promise resolves deps is exactly the set of nodes reachable from the start
\* node by one or more dependency edges: all branches are joined, and no
\* node is missing because another branch had added a shared node that was
\* not expanded yet.
C19_WalkTerminatesComplete ==
    /\ []C19_DepsAreComplete
    /\ (styles.status = "find_deps") ~> WalkIsOver

C19_Witness ==
    /\ FindDepsResolved
    /\ ssrTransformResult = Nodes
    /\ OnCycle(Component)
    /\ Range(deps) = Nodes
    /\ \E b \in DOMAIN branches :
          /\ branches[b] = "skipped" /\ b.target \in Nodes \ {Component}
          /\ b.inv = Inv(Component, TRUE)

\* the cells a cell refers to, and the cells reachable from a set of cells
RefsOf(cell) ==
    {cell.props[k].v : k \in {x \in DOMAIN cell.props : cell.props[x].t = "ref"}}
        \cup {cell.items[i].v : i \in {x \in 1..Len(cell.items) : cell.items[x].t = "ref"}}
RECURSIVE CellsFrom(_, _, _)
CellsFrom(h, frontier, seen) ==
    IF frontier = {} THEN seen
    ELSE LET c == CHOOSE x \in frontier : TRUE
         IN CellsFrom(h, (frontier \cup RefsOf(h[c])) \ (seen \cup {c}), seen \cup {c})

\* the objects passed to the call and everything they hold, at any depth
InputCells == CellsFrom(merged.before, {merged.args[i] : i \in 1..Len(merged.args)}, {})

\* no cell that existed before the call has changed
InputsNotMutated == \A c \in 1..Len(merged.before) : heap[c] = merged.before[c]

\* C18: deep_merge is independent of its inputs: it mutates none of them at
\* any level, and the object it returns holds no reference to an input
\* object or to an object or array nested in one, at any depth, elements of
\* merged arrays included.
C18_ResultSharesNothing ==
    merged.status = "returned" =>
        /\ InputsNotMutated
        /\ CellsFrom(heap, {merged.result}, {}) \cap InputCells = {}

\* what the code does keep: a call never changes a cell of its inputs
C18_InputsNotMutated == merged.status # "idle" => InputsNotMutated

\* the modules whose file extension is on the list: .js and .md are, .svx2
\* is configured
Examined == {n \in Nodes : ext[n] \in {".js", ".svelte.md", ".svx2"}}

\* C20: the live-graph variant examines and descends into a module only if
\* its file extension is on the allow-list (the ten built-in extensions and
\* the configured ones): a module with another extension or without an id is
\* no element of a chain and its imports are not followed, also when it is in
\* the forbidden set; a chain is found exactly when a forbidden id is
\* reachable from the root through examined modules, so on a graph whose
\* modules are all allow-listed exactly when a forbidden id is reachable.
C20_OnlyAllowListedExamined ==
    (call.fn = "loader" /\ call.checked) =>
        /\ Found(call) => \A i \in 1..ChainLen : ChainNode(i) \in Examined
        /\ Found(call) <=> ForbiddenReachable({call.root}, Nodes \ Examined)
        /\ Examined = Nodes => (Found(call) <=> ForbiddenReachable({call.root}, {}))

C20_Witness ==
    /\ call.fn = "loader" /\ call.checked /\ ~Found(call)
    /\ call.root \in Examined
    /\ \E m, k \in Nodes :
          /\ ext[m] = ".css" /\ NameOf(m) \in illegal_imports
          /\ Edge(call.root, m) /\ Edge(m, k)
          /\ k \in Examined /\ NameOf(k) \in illegal_imports /\ k # call.root

\* the names of the modules on the recursion path
RecursionPath == {NameOf(n) : n \in OnStack(traversal)}

\* the search looks into module n (the live-graph variant only into files of
\* the types it analyses)
Analysed(n) == traversal.fn = "rollup" \/ ext[n] = ".js"

\* the stepwise traversal returns what the recursive search returns
StepsAgreeWithSearch ==
    traversal.status = "returned" =>
        LET r == IF traversal.fn = "rollup"
                 THEN find_illegal_rollup_imports(ModuleInfo(traversal.root), FALSE,
                                                  illegal_imports, {})
                 ELSE find_illegal_vite_imports(ModuleNode(traversal.root), illegal_imports,
                                                get_module_types(ConfigModuleTypes), {})
        IN traversal.chain = r.chain /\ traversal.seen = r.seen

C22_Original ==
    \A r \in Requests : "respond" \in Steps(r) => req[r].manifest = req[r].began

\* the step that calls respond hands it the manifest current at that step
C22_RespondReadsManifest ==
    \A r \in Requests :
        ("respond" \notin Steps(r) /\ "respond" \in Range(req'[r].steps)) =>
            /\ req'[r].manifest = manifest
            /\ req'[r].given = objects[manifest]

\* the manifest a render was given is not older than the one of the start
\* of the handling, and it stays the one the render was given
C22_NotOlderThanStart ==
    \A r \in Requests :
        "respond" \in Steps(r) =>
            /\ req[r].began <= req[r].manifest
            /\ req[r].manifest <= manifest

\* C22 as amended: the dispatcher takes no snapshot when it begins to handle
\* a request; `manifest` is read when respond is called, after environment
\* injection, hook loading and request construction. A rebuild before that
\* call is seen by the request, which is rendered with the new manifest; only
\* a rebuild after the call leaves the request with the manifest it was given.
C22_SnapshotAtRespond == []C22_NotOlderThanStart /\ [][C22_RespondReadsManifest]_vars

C22_Witness ==
    \E r \in Requests :
        /\ "respond" \in Steps(r)
        /\ req[r].began = 1 /\ req[r].manifest = 2
        /\ req[r].given = ManifestOf(2)

\* the files of WatchedFiles that lie under the routes directory
UnderRoutes == {<<"src", "/", "routes", "/", "a.svelte">>,
                <<"src", "/", "routes", "/", "blog", "/", "b.svelte">>}

\* the step is the watcher's, for the addition or removal of a route file
RouteEvent ==
    /\ watched'.count = watched.count + 1
    /\ watched'.event \in {"add", "unlink"}
    /\ watched'.file \in UnderRoutes

\* the step is the first update_manifest call of dev()
StartupStep == manifest = 0 /\ manifest' # 0

\* the manifest reference is replaced by the steps named, and by no other
C23_ReplacedByStep ==
    /\ (manifest' # manifest) <=> (StartupStep \/ RouteEvent)
    /\ (watched'.count = watched.count + 1 /\ ~RouteEvent) =>
          (manifest' = manifest /\ objects' = objects)
    /\ req' # req => (manifest' = manifest /\ objects' = objects)

\* C23: the shared manifest reference is replaced exactly at startup and
\* when the watcher reports an 'add' or 'unlink' event for a file whose path
\* lies under the routes directory; watcher events for files outside it (a
\* directory whose name merely starts like it included), other watcher
\* events, and request handling leave the reference unchanged.
C23_ManifestReplacedOnRouteEvents == [][C23_ReplacedByStep]_vars

C23_Witness ==
    /\ manifest = 2
    /\ watched.count = 2
    /\ watched.event = "unlink"
    /\ watched.file = <<"src", "/", "routes", "/", "blog", "/", "b.svelte">>
    /\ req[1].pc = "done"
    /\ req[1].manifest = 1

\* the dispatcher middleware has been entered for request r
Entered(r) == "dispatch" \in Steps(r)

\* the next step of the handling of request r
Handle(r) ==
    \/ \E e \in Errors : Dispatch(r, e)
    \/ \E e \in Errors : EnvPrivateLoaded(r, e)
    \/ \E e \in Errors : EnvPublicLoaded(r, e)
    \/ \E e \in Faults : HooksLoaded(r, e)
    \/ \E e \in Faults : RootLoaded(r, e)
    \/ \E e \in Errors : PathsLoaded(r, e)
    \/ \E e \in Errors \cup {BodyError}, t \in Errors : RequestBuilt(r, e, t)
    \/ \E st \in RenderStatuses, hit \in BOOLEAN, e \in Faults, f \in Errors :
          Rendered(r, st, hit, e, f)

\* the terminal outcomes, told by who wrote the response
Outcomes(r) ==
    LET w == req[r].writes[1] IN
    {o \in {"file served", "not found", "invalid request body", "rendered",
            "static fallback", "error"} :
        CASE o = "file served" ->
                w.by = "serve_static" /\ w.status = 200 /\ "rendered" \notin Steps(r)
          [] o = "not found" -> w.by = "not_found" /\ w.status = 404
          [] o = "invalid request body" -> w.by = "getRequest"
          [] o = "rendered" -> w.by = "setResponse" /\ w.status = req[r].rendered
          [] o = "static fallback" ->
                w.by = "serve_static" /\ req[r].rendered = 404 /\ "rendered" \in Steps(r)
          [] o = "error" -> w.by = "catch" /\ w.status = 500}

\* C24: every request that enters the dispatcher middleware ends in exactly
\* one terminal outcome (file served by the static responder, 404 not found,
\* invalid request body, rendered response written, static fallback after a
\* 404, or 500): the response is written once on every path, never by two
\* responders and never by the 500 handler after another outcome, and a
\* request that has no outcome yet has a next step.
C24_OneTerminalOutcome ==
    \A r \in Requests :
        /\ Len(req[r].writes) <= 1
        /\ Entered(r) =>
              /\ req[r].pc = "done" <=> Len(req[r].writes) = 1
              /\ req[r].pc = "done" => Cardinality(Outcomes(r)) = 1
              /\ req[r].pc # "done" => ENABLED Handle(r)

C24_Witness ==
    \E r1, r2 \in Requests :
        /\ req[r1].pc = "done" /\ Outcomes(r1) = {"static fallback"}
        /\ req[r2].pc = "done" /\ Outcomes(r2) = {"error"}
        /\ req[r2].stage = "respond"

====
